---- MODULE Spec2Model ----
(***************************************************************************)
(* ee_math: fixed-size containers (vec, mat, quat), the basis descriptor   *)
(* and the basis conversions to_basis / from_basis.                        *)
(*                                                                         *)
(* Containers are modelled by their storage: a function from the cell      *)
(* index (0-based, as in the source) to an integer.  T is int throughout.  *)
(***************************************************************************)
EXTENDS Integers, Sequences, FiniteSets, TLC

VARIABLES
    B,      \* basis machine: the basis<I,J,K> the conversions are instantiated with
    arg,    \* basis machine: the value the caller started from
    res,    \* basis machine: the value after the calls made so far
    trace,  \* basis machine: the names of the calls made so far
    tag,    \* basis machine: the axis tag given to the last basis_vector call
    kind,   \* container machine: which container type the object has
    shape,  \* container machine: <<R, C>> of a mat, <<size, 1>> otherwise
    mem,    \* container machine: the object's storage, one cell per T
    lastOp, \* container machine: the last write made to the object
    nw,     \* container machine: the number of writes made so far
    obj,    \* operator machine: the caller's objects a and b
    pre,    \* operator machine: the caller's objects before the call
    call,   \* operator machine: the call made, with its arguments
    ret     \* operator machine: the value the call returned

vars == <<B, arg, res, trace, tag, kind, shape, mem, lastOp, nw, obj, pre, call, ret>>

basisVars == <<B, arg, res, trace, tag>>
containerVars == <<kind, shape, mem, lastOp, nw>>
operatorVars == <<obj, pre, call, ret>>

----------------------------------------------------------------------------
(* Bounds of the model *)

\* components of the input vectors, quaternions and matrices: -MaxCoord..MaxCoord
MaxCoord == 1
\* number of conversion calls chained on one value
MaxOps == 2
\* squared magnitude of the input quaternions
MaxMag2 == 2
\* rows and columns of a mat: 1..MaxDim; a generic vec has 4 + (1..MaxDim) cells
MaxDim == 3
\* values written into a container: 0..MaxVal
MaxVal == 1
\* number of writes made to one container
MaxWrites == 2

Coord == (0 - MaxCoord)..MaxCoord

----------------------------------------------------------------------------
(* Aggregate initialisation: the braces fill data[] in order. *)

V2(a, b) == (0 :> a) @@ (1 :> b)
V3(a, b, c) == (0 :> a) @@ (1 :> b) @@ (2 :> c)
V4(a, b, c, d) == (0 :> a) @@ (1 :> b) @@ (2 :> c) @@ (3 :> d)
Braces(s) == [n \in 0..(Len(s) - 1) |-> s[n + 1]]

RECURSIVE SumTo(_, _)
\* the accumulation loop  for (c = 0; c < n; ++c) result += f[c]
SumTo(f, n) == IF n = 0 THEN 0 ELSE SumTo(f, n - 1) + f[n - 1]

----------------------------------------------------------------------------
(* mat.hpp: storage order *)

EE_MATRIX_COLUMN_MAJOR == 1

mat_rc_to_i_rowmajor(coords, size) == coords[0] * size[1] + coords[1]

mat_rc_to_i(coords, size) ==
    IF EE_MATRIX_COLUMN_MAJOR # 0
    THEN coords[0] + size[0] * coords[1]
    ELSE coords[0] * size[1] + coords[1]

mat_i_to_r(i, size) ==
    IF EE_MATRIX_COLUMN_MAJOR # 0 THEN i % size[0] ELSE i \div size[1]

mat_i_to_c(i, size) ==
    IF EE_MATRIX_COLUMN_MAJOR # 0 THEN i \div size[0] ELSE i % size[1]

mat_i_to_rc_swapped(i, size) == V2(i \div size[0], i % size[0])

mat_i_to_rc(i, size) ==
    IF EE_MATRIX_COLUMN_MAJOR # 0
    THEN V2(i % size[0], i \div size[0])
    ELSE V2(i \div size[1], i % size[1])

\* mat<T,4,4>::operator()(r, c)
At(m, r, c) == m[mat_rc_to_i(V2(r, c), V2(4, 4))]

----------------------------------------------------------------------------
(* basis.hpp: axis tags and the basis descriptor *)

xpos == V3(1, 0, 0)
ypos == V3(0, 1, 0)
zpos == V3(0, 0, 1)
xneg == V3(0 - 1, 0, 0)
yneg == V3(0, 0 - 1, 0)
zneg == V3(0, 0, 0 - 1)

Tags == {xpos, ypos, zpos, xneg, yneg, zneg}

\* operator== on containers: every cell equal
container_eq(lhs, rhs, size) == \A n \in 0..(size - 1) : lhs[n] = rhs[n]

\* mag2: the loop  for (auto e : v) ms += e * e
mag2(v) == LET n == Cardinality(DOMAIN v) IN SumTo([d \in 0..(n - 1) |-> v[d] * v[d]], n)

cross_commuted(v1, v2) ==
    V3(v1[2] * v2[1] - v1[1] * v2[2],
       v1[0] * v2[2] - v1[2] * v2[0],
       v1[1] * v2[0] - v1[0] * v2[1])

cross(v1, v2) ==
    V3(v1[1] * v2[2] - v1[2] * v2[1],
       v1[2] * v2[0] - v1[0] * v2[2],
       v1[0] * v2[1] - v1[1] * v2[0])

basis(I, J, K) == [i |-> I, j |-> J, k |-> K]

is_right_handed_not_opposite(b) ==
    ~ container_eq(cross(b.i, b.j), [d \in 0..2 |-> 0 - b.k[d]], 3)

is_right_handed(b) == container_eq(cross(b.i, b.j), b.k, 3)
is_left_handed(b) == ~ is_right_handed(b)

initial_basis == basis(xpos, ypos, zpos)

\* The constraint on basis<I,J,K>: I, J, K linearly independent tags, i.e. one
\* tag on each of the three axes.
TagAxis(t) == CHOOSE d \in 0..2 : t[d] # 0
ValidBases ==
    {b \in [i : Tags, j : Tags, k : Tags] :
        {TagAxis(b.i), TagAxis(b.j), TagAxis(b.k)} = 0..2}

----------------------------------------------------------------------------
(* to_basis / from_basis *)

\* i_index, i_switch (and j_, k_): where the tag's nonzero component is, and
\* its value
tag_index(t) ==
    (IF t[0] # 0 THEN 0 ELSE 0) + (IF t[1] # 0 THEN 1 ELSE 0)
        + (IF t[2] # 0 THEN 2 ELSE 0)
tag_switch(t) == t[0] + t[1] + t[2]

\* x_index, x_switch (and y_, z_): which of I, J, K lies on initial axis a, and
\* its sign
axis_index(b, a) ==
    (IF b.i[a] # 0 THEN 0 ELSE 0) + (IF b.j[a] # 0 THEN 1 ELSE 0)
        + (IF b.k[a] # 0 THEN 2 ELSE 0)
axis_switch(b, a) == b.i[a] + b.j[a] + b.k[a]

to_basis_vec_unsigned(b, v) ==
    V3(v[tag_index(b.i)], v[tag_index(b.j)], v[tag_index(b.k)])

to_basis_vec(b, v) ==
    LET i_index == tag_index(b.i)
        i_switch == tag_switch(b.i)
        j_index == tag_index(b.j)
        j_switch == tag_switch(b.j)
        k_index == tag_index(b.k)
        k_switch == tag_switch(b.k)
    IN  V3(i_switch * v[i_index],
           j_switch * v[j_index],
           k_switch * v[k_index])

to_basis_mat_transposed(b, m) ==
    LET i_index == tag_index(b.i)
        i_switch == tag_switch(b.i)
        j_index == tag_index(b.j)
        j_switch == tag_switch(b.j)
        k_index == tag_index(b.k)
        k_switch == tag_switch(b.k)
    IN  Braces(<<
            i_switch * i_switch * At(m, i_index, i_index),
            i_switch * j_switch * At(m, i_index, j_index),
            i_switch * k_switch * At(m, i_index, k_index),
            i_switch            * At(m,    3   , i_index),

            j_switch * i_switch * At(m, j_index, i_index),
            j_switch * j_switch * At(m, j_index, j_index),
            j_switch * k_switch * At(m, j_index, k_index),
            j_switch            * At(m,    3   , j_index),

            k_switch * i_switch * At(m, k_index, i_index),
            k_switch * j_switch * At(m, k_index, j_index),
            k_switch * k_switch * At(m, k_index, k_index),
            k_switch            * At(m,    3   , k_index),

                       i_switch * At(m, i_index,    3   ),
                       j_switch * At(m, j_index,    3   ),
                       k_switch * At(m, k_index,    3   ),
                                  At(m,    3   ,    3   ) >>)

to_basis_mat(b, m) ==
    LET i_index == tag_index(b.i)
        i_switch == tag_switch(b.i)
        j_index == tag_index(b.j)
        j_switch == tag_switch(b.j)
        k_index == tag_index(b.k)
        k_switch == tag_switch(b.k)
    IN  Braces(<<
            i_switch * i_switch * At(m, i_index, i_index),
            i_switch * j_switch * At(m, j_index, i_index),
            i_switch * k_switch * At(m, k_index, i_index),
            i_switch            * At(m,    3   , i_index),

            j_switch * i_switch * At(m, i_index, j_index),
            j_switch * j_switch * At(m, j_index, j_index),
            j_switch * k_switch * At(m, k_index, j_index),
            j_switch            * At(m,    3   , j_index),

            k_switch * i_switch * At(m, i_index, k_index),
            k_switch * j_switch * At(m, j_index, k_index),
            k_switch * k_switch * At(m, k_index, k_index),
            k_switch            * At(m,    3   , k_index),

                       i_switch * At(m, i_index,    3   ),
                       j_switch * At(m, j_index,    3   ),
                       k_switch * At(m, k_index,    3   ),
                                  At(m,    3   ,    3   ) >>)

to_basis_quat_no_angle_switch(b, q) ==
    V4(tag_switch(b.i) * q[tag_index(b.i)],
       tag_switch(b.j) * q[tag_index(b.j)],
       tag_switch(b.k) * q[tag_index(b.k)],
       q[3])

to_basis_quat(b, q) ==
    LET angle_switch ==
            IF is_right_handed(initial_basis) = is_right_handed(b)
            THEN 1 ELSE 0 - 1
        i_index == tag_index(b.i)
        i_switch == tag_switch(b.i) * angle_switch
        j_index == tag_index(b.j)
        j_switch == tag_switch(b.j) * angle_switch
        k_index == tag_index(b.k)
        k_switch == tag_switch(b.k) * angle_switch
    IN  V4(i_switch * q[i_index],
           j_switch * q[j_index],
           k_switch * q[k_index],
           q[3])

from_basis_vec_by_tag(b, v) ==
    V3(tag_switch(b.i) * v[tag_index(b.i)],
       tag_switch(b.j) * v[tag_index(b.j)],
       tag_switch(b.k) * v[tag_index(b.k)])

from_basis_vec(b, v) ==
    LET x_index == axis_index(b, 0)
        x_switch == axis_switch(b, 0)
        y_index == axis_index(b, 1)
        y_switch == axis_switch(b, 1)
        z_index == axis_index(b, 2)
        z_switch == axis_switch(b, 2)
    IN  V3(x_switch * v[x_index],
           y_switch * v[y_index],
           z_switch * v[z_index])

from_basis_mat_double_sign(b, m) ==
    LET x_index == axis_index(b, 0)
        x_switch == axis_switch(b, 0)
        y_index == axis_index(b, 1)
        y_switch == axis_switch(b, 1)
        z_index == axis_index(b, 2)
        z_switch == axis_switch(b, 2)
    IN  Braces(<<
            x_switch * x_switch * At(m, x_index, x_index),
            x_switch * y_switch * At(m, y_index, x_index),
            x_switch * z_switch * At(m, z_index, x_index),
            x_switch            * At(m,    3   , x_index),

            y_switch * x_switch * At(m, x_index, y_index),
            y_switch * y_switch * At(m, y_index, y_index),
            y_switch * z_switch * At(m, z_index, y_index),
            y_switch            * At(m,    3   , y_index),

            z_switch * x_switch * At(m, x_index, z_index),
            z_switch * y_switch * At(m, y_index, z_index),
            z_switch * z_switch * At(m, z_index, z_index),
            z_switch            * At(m,    3   , z_index),

            x_switch * x_switch * At(m, x_index,    3   ),
            y_switch * y_switch * At(m, y_index,    3   ),
            z_switch * z_switch * At(m, z_index,    3   ),
                                  At(m,    3   ,    3   ) >>)

from_basis_mat(b, m) ==
    LET x_index == axis_index(b, 0)
        x_switch == axis_switch(b, 0)
        y_index == axis_index(b, 1)
        y_switch == axis_switch(b, 1)
        z_index == axis_index(b, 2)
        z_switch == axis_switch(b, 2)
    IN  Braces(<<
            x_switch * x_switch * At(m, x_index, x_index),
            x_switch * y_switch * At(m, y_index, x_index),
            x_switch * z_switch * At(m, z_index, x_index),
            x_switch            * At(m,    3   , x_index),

            y_switch * x_switch * At(m, x_index, y_index),
            y_switch * y_switch * At(m, y_index, y_index),
            y_switch * z_switch * At(m, z_index, y_index),
            y_switch            * At(m,    3   , y_index),

            z_switch * x_switch * At(m, x_index, z_index),
            z_switch * y_switch * At(m, y_index, z_index),
            z_switch * z_switch * At(m, z_index, z_index),
            z_switch            * At(m,    3   , z_index),

                       x_switch * At(m, x_index,    3   ),
                       y_switch * At(m, y_index,    3   ),
                       z_switch * At(m, z_index,    3   ),
                                  At(m,    3   ,    3   ) >>)

from_basis_quat_flip_right(b, q) ==
    LET angle_switch ==
            IF is_right_handed(initial_basis) = is_right_handed(b)
            THEN 0 - 1 ELSE 1
    IN  V4(axis_switch(b, 0) * angle_switch * q[axis_index(b, 0)],
           axis_switch(b, 1) * angle_switch * q[axis_index(b, 1)],
           axis_switch(b, 2) * angle_switch * q[axis_index(b, 2)],
           q[3])

from_basis_quat(b, q) ==
    LET angle_switch ==
            IF is_right_handed(initial_basis) = is_right_handed(b)
            THEN 1 ELSE 0 - 1
        x_index == axis_index(b, 0)
        x_switch == axis_switch(b, 0) * angle_switch
        y_index == axis_index(b, 1)
        y_switch == axis_switch(b, 1) * angle_switch
        z_index == axis_index(b, 2)
        z_switch == axis_switch(b, 2) * angle_switch
    IN  V4(x_switch * q[x_index],
           y_switch * q[y_index],
           z_switch * q[z_index],
           q[3])

----------------------------------------------------------------------------
(* basis_vector(quat, tag): the image of an axis under the rotation q.     *)
(* q.x, q.y, q.z, q.w are cells 0..3 of the quaternion.                    *)

basis_vector_zneg_unflipped(q, t) ==
    LET x == q[0]
        y == q[1]
        z == q[2]
        w == q[3]
    IN  CASE t = xpos -> V3(1 - 2 * (y * y + z * z), 2 * (x * y + w * z), 2 * (x * z - w * y))
          [] t = xneg -> V3(2 * (y * y + z * z) - 1, 0 - 2 * (x * y + w * z),
                            0 - 2 * (x * z - w * y))
          [] t = ypos -> V3(2 * (x * y - w * z), 1 - 2 * (x * x + z * z), 2 * (y * z + w * x))
          [] t = yneg -> V3(0 - 2 * (x * y - w * z), 2 * (x * x + z * z) - 1,
                            0 - 2 * (y * z + w * x))
          [] t = zpos -> V3(2 * (x * z + w * y), 2 * (y * z - w * x), 1 - 2 * (x * x + y * y))
          [] t = zneg -> V3(0 - 2 * (x * z + w * y), 0 - 2 * (y * z - w * x),
                            1 - 2 * (x * x + y * y))

basis_vector(q, t) ==
    LET x == q[0]
        y == q[1]
        z == q[2]
        w == q[3]
    IN  CASE t = xpos -> V3(1 - 2 * (y * y + z * z),
                                2 * (x * y + w * z),
                                2 * (x * z - w * y))
          [] t = xneg -> V3(2 * (y * y + z * z) - 1,
                            0 - 2 * (x * y + w * z),
                            0 - 2 * (x * z - w * y))
          [] t = ypos -> V3(    2 * (x * y - w * z),
                            1 - 2 * (x * x + z * z),
                                2 * (y * z + w * x))
          [] t = yneg -> V3(0 - 2 * (x * y - w * z),
                            2 * (x * x + z * z) - 1,
                            0 - 2 * (y * z + w * x))
          [] t = zpos -> V3(    2 * (x * z + w * y),
                                2 * (y * z - w * x),
                            1 - 2 * (x * x + y * y))
          [] t = zneg -> V3(0 - 2 * (x * z + w * y),
                            0 - 2 * (y * z - w * x),
                            2 * (x * x + y * y) - 1)

----------------------------------------------------------------------------
(* operators: mat * vec *)

\* mat<T,4,4> * vec<T,4>
mat_mul_vec(lhs, rhs) ==
    [r \in 0..3 |-> SumTo([c \in 0..3 |-> At(lhs, r, c) * rhs[c]], 4)]

----------------------------------------------------------------------------
(* The basis machine: a caller instantiates the conversions with a valid   *)
(* basis, starts from a vector, a 4x4 matrix or a quaternion, and chains    *)
(* calls on it.                                                            *)

VecInputs == [0..2 -> Coord]
QuatInputs == {q \in [0..3 -> Coord] : mag2(q) <= MaxMag2}

\* one nonzero entry
UnitMat(n, s) == [c \in 0..15 |-> IF c = n THEN s ELSE 0]
\* sixteen different entries
RampMat(a) == [c \in 0..15 |-> a + c]
MatInputs ==
    {UnitMat(n, s) : n \in 0..15, s \in Coord \ {0}} \cup {RampMat(a) : a \in Coord}

Value(k, v) == [kind |-> k, val |-> v]

Inputs ==
    {Value("vec", v) : v \in VecInputs}
        \cup {Value("mat", m) : m \in MatInputs}
        \cup {Value("quat", q) : q \in QuatInputs}

NoOp == [op |-> "none", name |-> "", cell |-> 0, val |-> << >>]

IdleContainer ==
    /\ kind = "none"
    /\ shape = V2(0, 0)
    /\ mem = << >>
    /\ lastOp = NoOp
    /\ nw = 0

NoCall == [name |-> "none", f |-> "", args |-> << >>]

IdleOperators ==
    /\ obj = << >>
    /\ pre = << >>
    /\ call = NoCall
    /\ ret = << >>

InitBasis ==
    /\ B \in ValidBases
    /\ arg \in Inputs
    /\ res = arg
    /\ trace = << >>
    /\ tag = xpos
    /\ IdleContainer
    /\ IdleOperators

Call(name, k, v) ==
    /\ Len(trace) < MaxOps
    /\ res' = Value(k, v)
    /\ trace' = Append(trace, name)
    /\ UNCHANGED <<B, arg, tag, containerVars, operatorVars>>

ToBasisVec ==
    /\ res.kind = "vec"
    /\ Call("to_basis", "vec", to_basis_vec(B, res.val))

ToBasisMat ==
    /\ res.kind = "mat"
    /\ Call("to_basis", "mat", to_basis_mat(B, res.val))

ToBasisQuat ==
    /\ res.kind = "quat"
    /\ Call("to_basis", "quat", to_basis_quat(B, res.val))

FromBasisVec ==
    /\ res.kind = "vec"
    /\ Call("from_basis", "vec", from_basis_vec(B, res.val))

FromBasisMat ==
    /\ res.kind = "mat"
    /\ Call("from_basis", "mat", from_basis_mat(B, res.val))

FromBasisQuat ==
    /\ res.kind = "quat"
    /\ Call("from_basis", "quat", from_basis_quat(B, res.val))

BasisVector ==
    /\ res.kind = "quat"
    /\ Len(trace) < MaxOps
    /\ \E t \in Tags :
        /\ tag' = t
        /\ res' = Value("vec", basis_vector(res.val, t))
    /\ trace' = Append(trace, "basis_vector")
    /\ UNCHANGED <<B, arg, containerVars, operatorVars>>

NextBasis ==
    \/ ToBasisVec
    \/ ToBasisMat
    \/ ToBasisQuat
    \/ FromBasisVec
    \/ FromBasisMat
    \/ FromBasisQuat
    \/ BasisVector

SpecBasis == InitBasis /\ [][NextBasis]_vars

----------------------------------------------------------------------------
(* Claims about the basis conversions *)

\* the matrix with rows I, J, K, extended by the row and column (0, 0, 0, 1)
PMat(b) ==
    [n \in 0..15 |->
        LET r == n % 4
            c == n \div 4
        IN  IF r = 3 \/ c = 3
            THEN (IF r = c THEN 1 ELSE 0)
            ELSE (IF r = 0 THEN b.i[c] ELSE IF r = 1 THEN b.j[c] ELSE b.k[c])]
Transposed(m) == [n \in 0..15 |-> At(m, n \div 4, n % 4)]
Identity4 == [n \in 0..15 |-> IF n % 4 = n \div 4 THEN 1 ELSE 0]
\* the textbook product, entry (r, c) = sum over a of l(r, a) * m(a, c)
Product(l, m) ==
    [n \in 0..15 |->
        At(l, n % 4, 0) * At(m, 0, n \div 4) + At(l, n % 4, 1) * At(m, 1, n \div 4)
            + At(l, n % 4, 2) * At(m, 2, n \div 4) + At(l, n % 4, 3) * At(m, 3, n \div 4)]
Det3(b) ==
    b.i[0] * (b.j[1] * b.k[2] - b.j[2] * b.k[1])
        - b.i[1] * (b.j[0] * b.k[2] - b.j[2] * b.k[0])
        + b.i[2] * (b.j[0] * b.k[1] - b.j[1] * b.k[0])
WithW(v, w) == V4(v[0], v[1], v[2], w)
Point(p) == WithW(p, 1)
Xyz(q) == V3(q[0], q[1], q[2])
Scaled(s, v) == [d \in DOMAIN v |-> s * v[d]]
\* the rotation matrix of q: columns basis_vector(q, xpos / ypos / zpos)
RotMat(q) ==
    LET X == basis_vector(q, xpos)
        Y == basis_vector(q, ypos)
        Z == basis_vector(q, zpos)
    IN  Braces(<< X[0], X[1], X[2], 0,
                  Y[0], Y[1], Y[2], 0,
                  Z[0], Z[1], Z[2], 0,
                  0, 0, 0, 1 >>)
Column(m, c) == V3(At(m, 0, c), At(m, 1, c), At(m, 2, c))

\* C1: for every valid basis and every vector, 4x4 matrix and quaternion x,
\* from_basis(to_basis(x)) = x and to_basis(from_basis(x)) = x, exactly.
RoundTrip ==
    /\ trace = <<"to_basis", "from_basis">> => res = arg
    /\ trace = <<"from_basis", "to_basis">> => res = arg

RoundTripWitness ==
    /\ trace = <<"to_basis", "from_basis">>
    /\ B = basis(zneg, xpos, ypos)
    /\ arg = Value("mat", RampMat(0))
    /\ res = arg

RightHandedBases == {b \in ValidBases : is_right_handed(b)}

\* C2: is_right_handed is cross(I, J) == K and is_left_handed its negation;
\* true for (x,y,z), (y,z,x), (z,x,y), false for (x,z,y), (z,y,x), (y,x,z),
\* and over the 48 valid bases true exactly for the 24 of determinant +1.
Handedness ==
    /\ is_right_handed(B) <=> (cross(B.i, B.j) = B.k)
    /\ is_left_handed(B) <=> ~ is_right_handed(B)
    /\ is_right_handed(B) <=> (Det3(B) = 1)
    /\ is_right_handed(basis(xpos, ypos, zpos))
    /\ is_right_handed(basis(ypos, zpos, xpos))
    /\ is_right_handed(basis(zpos, xpos, ypos))
    /\ ~ is_right_handed(basis(xpos, zpos, ypos))
    /\ ~ is_right_handed(basis(zpos, ypos, xpos))
    /\ ~ is_right_handed(basis(ypos, xpos, zpos))
    /\ Cardinality(ValidBases) = 48
    /\ Cardinality(RightHandedBases) = 24

HandednessWitness ==
    /\ B = basis(yneg, zpos, xpos)
    /\ is_left_handed(B)
    /\ Det3(B) = 0 - 1

\* C3: component p of to_basis(v) is sign_p * v[index_p], i.e. to_basis(v) is
\* the matrix with rows I, J, K times v; to_basis<z,x,y>((1,2,3)) = (3,1,2).
ToBasisVecRule ==
    /\ (trace = <<"to_basis">> /\ arg.kind = "vec") =>
        /\ res.val[0] = B.i[TagAxis(B.i)] * arg.val[TagAxis(B.i)]
        /\ res.val[1] = B.j[TagAxis(B.j)] * arg.val[TagAxis(B.j)]
        /\ res.val[2] = B.k[TagAxis(B.k)] * arg.val[TagAxis(B.k)]
        /\ Point(res.val) = mat_mul_vec(PMat(B), Point(arg.val))
    /\ to_basis_vec(basis(zpos, xpos, ypos), V3(1, 2, 3)) = V3(3, 1, 2)

ToBasisVecWitness ==
    /\ trace = <<"to_basis">>
    /\ B = basis(zpos, xneg, ypos)
    /\ arg = Value("vec", V3(1, 0, 0 - 1))
    /\ res = Value("vec", V3(0 - 1, 0 - 1, 0))

\* C4: to_basis(M) = P * M * P^-1 with P = diag([I;J;K], 1): block entry (r,c)
\* is sign_r * sign_c * M(index_r, index_c), translation column and last row
\* carry one sign, entry (3,3) is unchanged; so to_basis(M) applied to p is
\* to_basis(M applied to from_basis(p)).
ToBasisMatRule ==
    (trace = <<"to_basis">> /\ arg.kind = "mat") =>
        LET M == arg.val
            R == res.val
            T == <<B.i, B.j, B.k>>
            index(p) == TagAxis(T[p + 1])
            sign(p) == T[p + 1][index(p)]
        IN  /\ Product(PMat(B), Transposed(PMat(B))) = Identity4
            /\ R = Product(Product(PMat(B), M), Transposed(PMat(B)))
            /\ \A r, c \in 0..2 :
                  At(R, r, c) = sign(r) * sign(c) * At(M, index(r), index(c))
            /\ \A r \in 0..2 : At(R, r, 3) = sign(r) * At(M, index(r), 3)
            /\ \A c \in 0..2 : At(R, 3, c) = sign(c) * At(M, 3, index(c))
            /\ At(R, 3, 3) = At(M, 3, 3)
            /\ \A p \in VecInputs :
                  LET q == mat_mul_vec(M, Point(from_basis_vec(B, p)))
                  IN  mat_mul_vec(R, Point(p))
                          = WithW(to_basis_vec(B, Xyz(q)), q[3])

ToBasisMatWitness ==
    /\ trace = <<"to_basis">>
    /\ B = basis(yneg, zpos, xpos)
    /\ arg = Value("mat", RampMat(1))
    /\ At(res.val, 0, 1) = 0 - At(arg.val, 1, 2)
    /\ At(res.val, 0, 3) = 0 - At(arg.val, 1, 3)

\* C5: from_basis(M) = P^-1 * M * P; from_basis(M) applied to p is
\* from_basis(M applied to to_basis(p)), for every integer point p.
FromBasisMatRule ==
    (trace = <<"from_basis">> /\ arg.kind = "mat") =>
        LET M == arg.val
            R == res.val
        IN  /\ R = Product(Product(Transposed(PMat(B)), M), PMat(B))
            /\ \A p \in VecInputs :
                  LET q == mat_mul_vec(M, Point(to_basis_vec(B, p)))
                  IN  mat_mul_vec(R, Point(p))
                          = WithW(from_basis_vec(B, Xyz(q)), q[3])

FromBasisMatWitness ==
    /\ trace = <<"from_basis">>
    /\ B = basis(yneg, zpos, xpos)
    /\ arg = Value("mat", RampMat(1))
    /\ At(res.val, 2, 1) = 0 - At(arg.val, 1, 0)
    /\ At(res.val, 1, 3) = 0 - At(arg.val, 0, 3)

\* C6: to_basis(q) and from_basis(q) keep w and give as vector part
\* angle_switch times the vector overload of (q.x, q.y, q.z), angle_switch
\* being +1 for a right-handed basis and -1 for a left-handed one.
QuatRule ==
    LET s == IF is_right_handed(B) THEN 1 ELSE 0 - 1
    IN  /\ (trace = <<"to_basis">> /\ arg.kind = "quat") =>
            /\ res.val[3] = arg.val[3]
            /\ Xyz(res.val) = Scaled(s, to_basis_vec(B, Xyz(arg.val)))
        /\ (trace = <<"from_basis">> /\ arg.kind = "quat") =>
            /\ res.val[3] = arg.val[3]
            /\ Xyz(res.val) = Scaled(s, from_basis_vec(B, Xyz(arg.val)))

QuatRuleWitness ==
    /\ trace = <<"from_basis">>
    /\ B = basis(ypos, xpos, zpos)
    /\ is_left_handed(B)
    /\ arg = Value("quat", V4(1, 0, 0, 1))
    /\ res = Value("quat", V4(0, 0 - 1, 0, 1))

\* C7: quaternion conversion describes the same rotation as matrix conversion:
\* the rotation matrix of to_basis(q) (columns basis_vector(., xpos/ypos/zpos))
\* is to_basis of the rotation matrix of q, for right- and left-handed bases;
\* likewise for from_basis.
QuatMatAgree ==
    (/\ Len(trace) = 2
     /\ trace[2] = "basis_vector"
     /\ arg.kind = "quat"
     /\ tag \in {xpos, ypos, zpos}) =>
        LET c == TagAxis(tag)
        IN  /\ trace[1] = "to_basis" =>
                res.val = Column(to_basis_mat(B, RotMat(arg.val)), c)
            /\ trace[1] = "from_basis" =>
                res.val = Column(from_basis_mat(B, RotMat(arg.val)), c)

QuatMatAgreeWitness ==
    /\ trace = <<"to_basis", "basis_vector">>
    /\ is_left_handed(B)
    /\ B = basis(zpos, ypos, xpos)
    /\ arg = Value("quat", V4(1, 0, 0, 1))
    /\ tag = ypos
    /\ res.val # basis_vector(arg.val, ypos)

----------------------------------------------------------------------------
(* vec.hpp, quat.hpp, mat.hpp: the containers' storage.                    *)
(*                                                                         *)
(* vec<T,1..4> and quat<T> hold an anonymous union; every member of the     *)
(* union starts at cell 0, the fields of a struct follow one another, and a *)
(* vec<T,n> field takes n cells.  Union(k) lists the members in the order   *)
(* of declaration, each as the sequence of its fields.                     *)

F(n, w) == [name |-> n, width |-> w]
Scalars(names) == [e \in 1..Len(names) |-> F(names[e], 1)]

vec1_union ==
    << <<F("data", 1)>>, Scalars(<<"x">>), Scalars(<<"r">>), Scalars(<<"s">>),
       Scalars(<<"i">>) >>

vec2_union ==
    << <<F("data", 2)>>, Scalars(<<"x", "y">>), Scalars(<<"r", "g">>),
       Scalars(<<"s", "t">>), Scalars(<<"i", "j">>), Scalars(<<"w", "h">>) >>

vec3_union ==
    << <<F("data", 3)>>,
       Scalars(<<"x", "y", "z">>), <<F("xy", 2)>>,
       Scalars(<<"r", "g", "b">>), <<F("rg", 2)>>,
       Scalars(<<"s", "t", "p">>), <<F("st", 2)>>,
       Scalars(<<"i", "j", "k">>), <<F("ij", 2)>> >>

vec4_union_zw_first ==
    << <<F("data", 4)>>,
       Scalars(<<"x", "y", "z", "w">>), <<F("xyz", 3)>>, <<F("zw", 2), F("xy", 2)>>,
       Scalars(<<"r", "g", "b", "a">>), <<F("rgb", 3)>>, <<F("rg", 2), F("ba", 2)>>,
       Scalars(<<"s", "t", "p", "q">>), <<F("stp", 3)>>, <<F("st", 2), F("pq", 2)>>,
       Scalars(<<"i", "j", "k", "l">>), <<F("ijk", 3)>>, <<F("ij", 2), F("kl", 2)>> >>

vec4_union ==
    << <<F("data", 4)>>,
       Scalars(<<"x", "y", "z", "w">>), <<F("xyz", 3)>>, <<F("xy", 2), F("zw", 2)>>,
       Scalars(<<"r", "g", "b", "a">>), <<F("rgb", 3)>>, <<F("rg", 2), F("ba", 2)>>,
       Scalars(<<"s", "t", "p", "q">>), <<F("stp", 3)>>, <<F("st", 2), F("pq", 2)>>,
       Scalars(<<"i", "j", "k", "l">>), <<F("ijk", 3)>>, <<F("ij", 2), F("kl", 2)>> >>

quat_union ==
    << <<F("data", 4)>>, Scalars(<<"x", "y", "z", "w">>), <<F("xyz", 3)>> >>

AliasKinds == {"vec1", "vec2", "vec3", "vec4", "quat"}

Union(k) ==
    CASE k = "vec1" -> vec1_union
      [] k = "vec2" -> vec2_union
      [] k = "vec3" -> vec3_union
      [] k = "vec4" -> vec4_union
      [] k = "quat" -> quat_union
      [] OTHER -> << >>

\* the fields of a container type, each with the cell it starts at
Fields(k) ==
    UNION {
        {[name |-> Union(k)[m][e].name,
          width |-> Union(k)[m][e].width,
          offset |-> SumTo([d \in 0..(e - 2) |-> Union(k)[m][d + 1].width], e - 1)] :
            e \in 1..Len(Union(k)[m])} :
        m \in 1..Len(Union(k))}

Field(k, n) == CHOOSE f \in Fields(k) : f.name = n

\* the size of a container: tuple_size / T::size
Size(k, sh) == IF k = "mat" THEN sh[0] * sh[1] ELSE sh[0]

\* operator()(d): data[d]
ReadIndex(m, d) == m[d]
\* an alias of one component: v.x, v.g, ...
ReadName(k, m, n) == m[Field(k, n).offset]
\* a sub-vector alias: v.xy, v.zw, q.xyz, ...
ReadSub(k, m, n) == [d \in 0..(Field(k, n).width - 1) |-> m[Field(k, n).offset + d]]

bool_generic_any_nonzero(m, size) == \E d \in 0..(size - 1) : m[d] # 0

\* explicit operator bool of the generic vec<T,D> and of mat<T,R,C>: the loop
\* returns false at the first nonzero cell, true after the last
bool_generic(m, size) == ~ (\E d \in 0..(size - 1) : m[d] # 0)

to_bool(k, m, sh) ==
    CASE k = "vec1" -> ReadName(k, m, "x") # 0
      [] k = "vec2" -> ReadName(k, m, "x") # 0 \/ ReadName(k, m, "y") # 0
      [] k = "vec3" ->
            ReadName(k, m, "x") # 0 \/ ReadName(k, m, "y") # 0 \/ ReadName(k, m, "z") # 0
      [] k \in {"vec4", "quat"} ->
            ReadName(k, m, "x") # 0 \/ ReadName(k, m, "y") # 0 \/ ReadName(k, m, "z") # 0
                \/ ReadName(k, m, "w") # 0
      [] k \in {"vec", "mat"} -> bool_generic(m, Size(k, sh))

----------------------------------------------------------------------------
(* The container machine: an object of one container type is created       *)
(* zero-initialised and written through its index operator, through the    *)
(* names of its components and through its sub-vectors.                    *)

Vals == 0..MaxVal
Dims == 1..MaxDim

Shapes ==
    {<<"vec1", V2(1, 1)>>, <<"vec2", V2(2, 1)>>, <<"vec3", V2(3, 1)>>,
     <<"vec4", V2(4, 1)>>, <<"quat", V2(4, 1)>>}
        \cup {<<"vec", V2(4 + d, 1)>> : d \in Dims}
        \cup {<<"mat", V2(r, c)>> : r \in Dims, c \in Dims}

IdleBasis ==
    /\ B = initial_basis
    /\ arg = Value("none", << >>)
    /\ res = arg
    /\ trace = << >>
    /\ tag = xpos

InitContainer ==
    /\ \E s \in Shapes :
        /\ kind = s[1]
        /\ shape = s[2]
        /\ mem = [d \in 0..(Size(s[1], s[2]) - 1) |-> 0]
    /\ lastOp = NoOp
    /\ nw = 0
    /\ IdleBasis
    /\ IdleOperators

Write(op, name, cell, vals) ==
    /\ nw < MaxWrites
    /\ nw' = nw + 1
    /\ mem' = [d \in DOMAIN mem |->
                 IF d \in cell..(cell + Len(vals) - 1) THEN vals[d - cell + 1] ELSE mem[d]]
    /\ lastOp' = [op |-> op, name |-> name, cell |-> cell, val |-> vals]
    /\ UNCHANGED <<kind, shape, basisVars, operatorVars>>

\* v(d) = val, q[d] = val
WriteIndex ==
    /\ kind \notin {"none", "mat"}
    /\ \E d \in 0..(Size(kind, shape) - 1), val \in Vals :
        Write("index", "data", d, <<val>>)

\* m(r, c) = val
WriteRC ==
    /\ kind = "mat"
    /\ \E r \in 0..(shape[0] - 1), c \in 0..(shape[1] - 1), val \in Vals :
        Write("rc", "data", mat_rc_to_i(V2(r, c), shape), <<val>>)

\* v.x = val, v.g = val, ...
WriteName ==
    \E f \in Fields(kind), val \in Vals :
        /\ f.width = 1
        /\ f.name # "data"
        /\ Write("name", f.name, f.offset, <<val>>)

\* v.xy = {a, b}, q.xyz = {a, b, c}, ...
WriteSub ==
    \E f \in Fields(kind) :
        /\ f.width > 1
        /\ f.name # "data"
        /\ \E vals \in [1..f.width -> Vals] :
            Write("sub", f.name, f.offset, vals)

NextContainer ==
    \/ WriteIndex
    \/ WriteRC
    \/ WriteName
    \/ WriteSub

SpecContainer == InitContainer /\ [][NextContainer]_vars


----------------------------------------------------------------------------
(* Claims about the containers *)

AllZero == \A d \in DOMAIN mem : mem[d] = 0

\* C8: for every container vec<T,D> (any D >= 1), mat<T,R,C> and quat<T>, the
\* explicit conversion to bool yields true if and only if all components are
\* zero.
BoolIffAllZero == to_bool(kind, mem, shape) <=> AllZero

\* the backing index the alias names are said to have
BackingIndex(k, n) ==
    IF k = "vec2" /\ n \in {"w", "h"}
    THEN (IF n = "w" THEN 0 ELSE 1)
    ELSE CASE n \in {"x", "r", "s", "i"} -> 0
           [] n \in {"y", "g", "t", "j"} -> 1
           [] n \in {"z", "b", "p", "k"} -> 2
           [] n \in {"w", "a", "q", "l"} -> 3
\* the indices the sub-vector aliases are said to cover
Cover(n) ==
    CASE n = "xy" -> <<0, 1>>
      [] n = "xyz" -> <<0, 1, 2>>
      [] n = "zw" -> <<2, 3>>
ScalarNames(k) == {f.name : f \in {g \in Fields(k) : g.width = 1 /\ g.name # "data"}}
SubNames(k) == {f.name : f \in Fields(k)} \cap {"xy", "xyz", "zw"}

\* C9: for vec<T,1..4> and quat<T>, after any sequence of writes through an
\* index or an alias, every alias reads the value last written to its backing
\* index: x/r/s/i -> 0, y/g/t/j -> 1, z/b/p/k -> 2, w/a/q/l -> 3 (D = 2:
\* w/h -> 0/1); xy, xyz, zw (and quat.xyz) cover (0,1), (0,1,2), (2,3).
AliasReads ==
    kind \in AliasKinds =>
        /\ \A n \in ScalarNames(kind) :
              ReadName(kind, mem, n) = ReadIndex(mem, BackingIndex(kind, n))
        /\ \A n \in SubNames(kind) :
              \A e \in 1..Len(Cover(n)) :
                  ReadSub(kind, mem, n)[e - 1] = ReadIndex(mem, Cover(n)[e])
        /\ lastOp.op = "name" =>
              ReadIndex(mem, BackingIndex(kind, lastOp.name)) = lastOp.val[1]
        /\ (lastOp.op = "sub" /\ lastOp.name \in SubNames(kind)) =>
              \A e \in 1..Len(Cover(lastOp.name)) :
                  ReadIndex(mem, Cover(lastOp.name)[e]) = lastOp.val[e]
        /\ lastOp.op = "index" =>
              \A n \in ScalarNames(kind) :
                  BackingIndex(kind, n) = lastOp.cell =>
                      ReadName(kind, mem, n) = lastOp.val[1]

AliasReadsWitness ==
    /\ kind = "vec4"
    /\ nw = 2
    /\ lastOp.op = "sub"
    /\ lastOp.name = "zw"
    /\ lastOp.val = <<0, 1>>
    /\ ReadName(kind, mem, "x") = 1
    /\ ReadName(kind, mem, "q") = 1
    /\ ReadName(kind, mem, "b") = 0

\* C10: for every R, C >= 1, mat_rc_to_i maps the pairs (r,c), r < R, c < C,
\* one-to-one onto 0..R*C-1 (column-major: r + R*c), and mat_i_to_rc (and
\* mat_i_to_r, mat_i_to_c) is its inverse.
MatIndexBijection ==
    kind = "mat" =>
        LET R == shape[0]
            C == shape[1]
            RC == {V2(r, c) : r \in 0..(R - 1), c \in 0..(C - 1)}
        IN  /\ \A rc \in RC :
                  /\ mat_rc_to_i(rc, shape) = rc[0] + R * rc[1]
                  /\ mat_i_to_rc(mat_rc_to_i(rc, shape), shape) = rc
                  /\ mat_i_to_r(mat_rc_to_i(rc, shape), shape) = rc[0]
                  /\ mat_i_to_c(mat_rc_to_i(rc, shape), shape) = rc[1]
            /\ {mat_rc_to_i(rc, shape) : rc \in RC} = 0..(R * C - 1)
            /\ \A rc1, rc2 \in RC :
                  mat_rc_to_i(rc1, shape) = mat_rc_to_i(rc2, shape) => rc1 = rc2
            /\ \A i \in 0..(R * C - 1) :
                  /\ mat_i_to_rc(i, shape) \in RC
                  /\ mat_rc_to_i(mat_i_to_rc(i, shape), shape) = i
            /\ lastOp.op = "rc" =>
                  mem[lastOp.cell] = lastOp.val[1]

MatIndexBijectionWitness ==
    /\ kind = "mat"
    /\ shape = V2(2, 3)
    /\ lastOp.op = "rc"
    /\ lastOp.cell = mat_rc_to_i(V2(1, 2), shape)
    /\ mat_i_to_rc(lastOp.cell, shape) = V2(1, 2)
    /\ mem[5] = 1

----------------------------------------------------------------------------
(* Function objects, cwise and the operators built on them                 *)

\* a vec, mat or quat object: its type (kind, shape) and its storage
Obj(k, sh, d) == [kind |-> k, shape |-> sh, data |-> d]
\* an arithmetic value passed where a tuple could be
Num(s) == [kind |-> "num", shape |-> V2(1, 1), data |-> s]

is_mat(x) == x.kind = "mat"
is_vec(x) == x.kind = "vec"
is_quat(x) == x.kind = "quat"
is_num(x) == x.kind = "num"
is_tuple(x) == is_mat(x) \/ is_vec(x) \/ is_quat(x)
\* T::size
tuple_size(t) == Size(t.kind, t.shape)
make_index_sequence(n) == 0..(n - 1)
same_type(x, y) == x.kind = y.kind /\ x.shape = y.shape

add(lhs, rhs) == lhs + rhs
sub(lhs, rhs) == lhs - rhs
mul(lhs, rhs) == lhs * rhs
\* int / int truncates toward zero
div(lhs, rhs) ==
    LET l == IF lhs < 0 THEN 0 - lhs ELSE lhs
        r == IF rhs < 0 THEN 0 - rhs ELSE rhs
    IN IF (lhs < 0) = (rhs < 0) THEN l \div r ELSE 0 - (l \div r)
opp(rhs) == 0 - rhs
lerp(v1, v2, weight) == v1 * (1 - weight) + v2 * weight

\* std::forward<F>(f)(...) for the function objects the model passes
Apply1(f, x) == CASE f = "opp" -> opp(x)
Apply2(f, x, y) ==
    CASE f = "add" -> add(x, y)
      [] f = "sub" -> sub(x, y)
      [] f = "mul" -> mul(x, y)
      [] f = "div" -> div(x, y)
Apply3(f, x, y, z) == CASE f = "lerp" -> lerp(x, y, z)

\* detail::cwise, one overload per shape of the argument list
cwise_t(f, t1, Is) == [i \in Is |-> Apply1(f, t1[i])]
cwise_tt(f, t1, t2, Is) == [i \in Is |-> Apply2(f, t1[i], t2[i])]
cwise_ts(f, t1, s2, Is) == [i \in Is |-> Apply2(f, t1[i], s2)]
cwise_st_swapped(f, s1, t2, Is) == [i \in Is |-> Apply2(f, t2[i], s1)]
cwise_st(f, s1, t2, Is) == [i \in Is |-> Apply2(f, s1, t2[i])]
cwise_ttt(f, t1, t2, t3, Is) == [i \in Is |-> Apply3(f, t1[i], t2[i], t3[i])]
cwise_tts(f, t1, t2, s3, Is) == [i \in Is |-> Apply3(f, t1[i], t2[i], s3)]
cwise_tst(f, t1, s2, t3, Is) == [i \in Is |-> Apply3(f, t1[i], s2, t3[i])]
cwise_stt(f, s1, t2, t3, Is) == [i \in Is |-> Apply3(f, s1, t2[i], t3[i])]
cwise_tss(f, t1, s2, s3, Is) == [i \in Is |-> Apply3(f, t1[i], s2, s3)]
cwise_sts(f, s1, t2, s3, Is) == [i \in Is |-> Apply3(f, s1, t2[i], s3)]
cwise_sst(f, s1, s2, t3, Is) == [i \in Is |-> Apply3(f, s1, s2, t3[i])]

\* cwise(f, t)
cwise1(f, t) ==
    LET Is == make_index_sequence(tuple_size(t))
    IN Obj(t.kind, t.shape, cwise_t(f, t.data, Is))

\* cwise(f, t1, t2): the result has the type of the first tuple argument
cwise2(f, t1, t2) ==
    LET tuple == IF is_tuple(t1) THEN t1 ELSE t2
        Is == make_index_sequence(tuple_size(tuple))
    IN Obj(tuple.kind, tuple.shape,
           CASE is_tuple(t1) /\ is_tuple(t2) -> cwise_tt(f, t1.data, t2.data, Is)
             [] is_tuple(t1) /\ is_num(t2) -> cwise_ts(f, t1.data, t2.data, Is)
             [] is_num(t1) /\ is_tuple(t2) -> cwise_st(f, t1.data, t2.data, Is))

\* cwise(f, t1, t2, t3)
cwise3(f, t1, t2, t3) ==
    LET tuple == IF is_tuple(t1) THEN t1 ELSE IF is_tuple(t2) THEN t2 ELSE t3
        Is == make_index_sequence(tuple_size(tuple))
        d1 == t1.data
        d2 == t2.data
        d3 == t3.data
    IN Obj(tuple.kind, tuple.shape,
           CASE is_tuple(t1) /\ is_tuple(t2) /\ is_tuple(t3) -> cwise_ttt(f, d1, d2, d3, Is)
             [] is_tuple(t1) /\ is_tuple(t2) /\ is_num(t3) -> cwise_tts(f, d1, d2, d3, Is)
             [] is_tuple(t1) /\ is_num(t2) /\ is_tuple(t3) -> cwise_tst(f, d1, d2, d3, Is)
             [] is_num(t1) /\ is_tuple(t2) /\ is_tuple(t3) -> cwise_stt(f, d1, d2, d3, Is)
             [] is_tuple(t1) /\ is_num(t2) /\ is_num(t3) -> cwise_tss(f, d1, d2, d3, Is)
             [] is_num(t1) /\ is_tuple(t2) /\ is_num(t3) -> cwise_sts(f, d1, d2, d3, Is)
             [] is_num(t1) /\ is_num(t2) /\ is_tuple(t3) -> cwise_sst(f, d1, d2, d3, Is))

(* Comparison operators, generic over vec, mat and quat: they walk data[]  *)

operator_eq(lhs, rhs) == container_eq(lhs.data, rhs.data, tuple_size(lhs))
operator_ne(lhs, rhs) == ~operator_eq(lhs, rhs)

\* the cells where the loop finds lhs.data[i] != rhs.data[i]
Differing(lhs, rhs) ==
    {i \in 0..(tuple_size(lhs) - 1) : lhs.data[i] # rhs.data[i]}
First(S) == CHOOSE i \in S : \A j \in S : i <= j
Last(S) == CHOOSE i \in S : \A j \in S : j <= i

operator_lt_last_differing(lhs, rhs) ==
    LET D == Differing(lhs, rhs)
    IN IF D = {} THEN FALSE ELSE lhs.data[Last(D)] < rhs.data[Last(D)]

operator_lt(lhs, rhs) ==
    LET D == Differing(lhs, rhs)
    IN IF D = {} THEN FALSE ELSE lhs.data[First(D)] < rhs.data[First(D)]

operator_gt(lhs, rhs) == operator_lt(rhs, lhs)
operator_le(lhs, rhs) == ~operator_gt(lhs, rhs)
operator_ge(lhs, rhs) == ~operator_lt(lhs, rhs)

(* Arithmetic operators *)

\* m(r, c) of a mat object
mat_at(m, r, c) == m.data[mat_rc_to_i(V2(r, c), m.shape)]

\* -t
operator_neg(rhs) == cwise1("opp", rhs)

operator_mul_mat_transposed_rhs(lhs, rhs) ==
    LET R == lhs.shape[0]
        LC == lhs.shape[1]
        RC == rhs.shape[1]
        size == V2(R, RC)
    IN Obj("mat", size,
           [n \in 0..(R * RC - 1) |->
               SumTo([i \in 0..(LC - 1) |->
                         mat_at(lhs, mat_i_to_r(n, size), i)
                             * rhs.data[mat_rc_to_i(V2(mat_i_to_c(n, size), i), V2(RC, LC))]],
                     LC)])

\* mat<R, LC> * mat<LC, RC>: result(j, k) += lhs(j, i) * rhs(i, k)
operator_mul_mat(lhs, rhs) ==
    LET R == lhs.shape[0]
        LC == lhs.shape[1]
        RC == rhs.shape[1]
        size == V2(R, RC)
    IN Obj("mat", size,
           [n \in 0..(R * RC - 1) |->
               SumTo([i \in 0..(LC - 1) |->
                         mat_at(lhs, mat_i_to_r(n, size), i)
                             * mat_at(rhs, i, mat_i_to_c(n, size))],
                     LC)])

\* mat<R, C> * vec<C>: result(r) += lhs(r, c) * rhs(c)
operator_mul_vec(lhs, rhs) ==
    LET R == lhs.shape[0]
        C == lhs.shape[1]
    IN Obj("vec", V2(R, 1),
           [r \in 0..(R - 1) |->
               SumTo([c \in 0..(C - 1) |-> mat_at(lhs, r, c) * rhs.data[c]], C)])

\* tuple * arithmetic and arithmetic * tuple
operator_mul_num(lhs, rhs) == cwise2("mul", lhs, rhs)
\* tuple / arithmetic
operator_div_num(lhs, rhs) == cwise2("div", lhs, rhs)
operator_add(lhs, rhs) == cwise2("add", lhs, rhs)
operator_sub(lhs, rhs) == cwise2("sub", lhs, rhs)

(* Compound assignment.  The left operand is a reference to one of the     *)
(* caller's objects, h[l]; a tuple right operand is a const reference to   *)
(* h[r], where r may be l; an arithmetic right operand is a copy.          *)

\* lhs = lhs * rhs, written into lhs cell by cell while rhs is still read
mul_assign_mat_in_place(h, l, r) ==
    LET z == [h EXCEPT ![l].data = [n \in DOMAIN h[l].data |-> 0]]
    IN [z EXCEPT ![l] = operator_mul_mat(h[l], z[r])]

\* mat *= mat: lhs = lhs * rhs
mul_assign_mat(h, l, r) == [h EXCEPT ![l] = operator_mul_mat(h[l], h[r])]

\* lhs = cwise(f, lhs, rhs) with rhs one of the objects
cwise_assign(f, h, l, r) == [h EXCEPT ![l] = cwise2(f, h[l], h[r])]
\* lhs = cwise(f, lhs, rhs) with rhs an arithmetic value
cwise_assign_num(f, h, l, s) == [h EXCEPT ![l] = cwise2(f, h[l], Num(s))]

\* for (i = 0; i < T::size; ++ i) lhs.data[i] op= rhs.data[i], after n rounds
RECURSIVE loop_assign(_, _, _, _, _)
loop_assign(f, h, l, r, n) ==
    IF n = 0
    THEN h
    ELSE LET g == loop_assign(f, h, l, r, n - 1)
         IN [g EXCEPT ![l].data[n - 1] = Apply2(f, g[l].data[n - 1], g[r].data[n - 1])]

\* for (i = 0; i < LT::size; ++ i) lhs.data[i] op= rhs, after n rounds
RECURSIVE loop_assign_num(_, _, _, _, _)
loop_assign_num(f, h, l, s, n) ==
    IF n = 0
    THEN h
    ELSE LET g == loop_assign_num(f, h, l, s, n - 1)
         IN [g EXCEPT ![l].data[n - 1] = Apply2(f, g[l].data[n - 1], s)]

\* detail::identity: 1 where the row of a cell is its column
c_identity(R, C) ==
    [n \in 0..(R * C - 1) |->
        IF mat_i_to_r(n, V2(R, C)) = mat_i_to_c(n, V2(R, C)) THEN 1 ELSE 0]

----------------------------------------------------------------------------
(* The operator machine: a caller holds two objects a and b and makes one  *)
(* call on them: cwise, a comparison, an arithmetic operator or a compound *)
(* assignment.  A reference argument names the object it is bound to.      *)

\* rows and columns of the operands: 1..MaxSide
MaxSide == 2

Sides == 1..MaxSide
Refs == {"a", "b"}
Nums == Vals \cup {0 - 1}

\* one nonzero cell
UnitCells(n, k, s) == [c \in 0..(n - 1) |-> IF c = k THEN s ELSE 0]
\* n different cells
RampCells(n, a) == [c \in 0..(n - 1) |-> a + c]
Cells(n) ==
    {UnitCells(n, k, s) : k \in 0..(n - 1), s \in Vals \ {0}}
        \cup {RampCells(n, a) : a \in Vals}

VecObjs(d) == {Obj("vec", V2(d, 1), c) : c \in Cells(d)}
QuatObjs == {Obj("quat", V2(4, 1), c) : c \in Cells(4)}
MatObjs(r, c) == {Obj("mat", V2(r, c), d) : d \in Cells(r * c) \cup {c_identity(r, c)}}

\* the objects of one type
SameTypeObjs ==
    {VecObjs(d) : d \in Sides} \cup {QuatObjs} \cup {MatObjs(r, c) : r \in Sides, c \in Sides}

ArgRef(h, x) == [ref |-> x, val |-> h[x]]
ArgNum(s) == [ref |-> "", val |-> Num(s)]
ArgChoices(h) == {ArgRef(h, x) : x \in Refs} \cup {ArgNum(s) : s \in Vals}

InitOperators ==
    /\ \E T \in SameTypeObjs : \E oa \in T, ob \in T : obj = [a |-> oa, b |-> ob]
    /\ pre = obj
    /\ call = NoCall
    /\ ret = << >>
    /\ IdleBasis
    /\ IdleContainer

\* a call that returns r and leaves the caller's objects as h; the caller
\* makes one call, when call = NoCall
Do(name, f, args, r, h) ==
    /\ call' = [name |-> name, f |-> f, args |-> args]
    /\ ret' = r
    /\ obj' = h
    /\ UNCHANGED <<pre, basisVars, containerVars>>

\* the tuple arguments of one call have one type
OneType(args) ==
    \A m \in 1..Len(args), n \in 1..Len(args) :
        is_tuple(args[m].val) /\ is_tuple(args[n].val) => same_type(args[m].val, args[n].val)
SomeTuple(args) == \E m \in 1..Len(args) : is_tuple(args[m].val)

Cwise1 ==
    /\ call = NoCall
    /\ \E x \in Refs :
        /\ is_tuple(obj[x])
        /\ Do("cwise", "opp", <<ArgRef(obj, x)>>, cwise1("opp", obj[x]), obj)

Cwise2 ==
    /\ call = NoCall
    /\ \E f \in {"add", "sub", "mul"}, x1 \in ArgChoices(obj), x2 \in ArgChoices(obj) :
        /\ SomeTuple(<<x1, x2>>)
        /\ OneType(<<x1, x2>>)
        /\ Do("cwise", f, <<x1, x2>>, cwise2(f, x1.val, x2.val), obj)

Cwise3 ==
    /\ call = NoCall
    /\ \E x1 \in ArgChoices(obj), x2 \in ArgChoices(obj), x3 \in ArgChoices(obj) :
        /\ SomeTuple(<<x1, x2, x3>>)
        /\ OneType(<<x1, x2, x3>>)
        /\ Do("cwise", "lerp", <<x1, x2, x3>>, cwise3("lerp", x1.val, x2.val, x3.val), obj)

\* the six comparisons of one pair of objects
Compare ==
    /\ call = NoCall
    /\ \E x \in Refs, y \in Refs :
        /\ same_type(obj[x], obj[y])
        /\ Do("compare", "", <<ArgRef(obj, x), ArgRef(obj, y)>>,
              [eq |-> operator_eq(obj[x], obj[y]), ne |-> operator_ne(obj[x], obj[y]),
               lt |-> operator_lt(obj[x], obj[y]), gt |-> operator_gt(obj[x], obj[y]),
               le |-> operator_le(obj[x], obj[y]), ge |-> operator_ge(obj[x], obj[y])],
              obj)

arithmetic(x) == is_mat(x) \/ is_vec(x)

\* -x
Negate ==
    /\ call = NoCall
    /\ \E x \in Refs :
        /\ arithmetic(obj[x])
        /\ Do("neg", "opp", <<ArgRef(obj, x)>>, operator_neg(obj[x]), obj)

\* x + y
Add ==
    /\ call = NoCall
    /\ \E x \in Refs, y \in Refs :
        /\ arithmetic(obj[x]) /\ same_type(obj[x], obj[y])
        /\ Do("add", "add", <<ArgRef(obj, x), ArgRef(obj, y)>>,
              operator_add(obj[x], obj[y]), obj)

\* x - y
Sub ==
    /\ call = NoCall
    /\ \E x \in Refs, y \in Refs :
        /\ arithmetic(obj[x]) /\ same_type(obj[x], obj[y])
        /\ Do("sub", "sub", <<ArgRef(obj, x), ArgRef(obj, y)>>,
              operator_sub(obj[x], obj[y]), obj)

\* x * s
MulNum ==
    /\ call = NoCall
    /\ \E x \in Refs, s \in Nums :
        /\ arithmetic(obj[x])
        /\ Do("mul", "mul", <<ArgRef(obj, x), ArgNum(s)>>,
              operator_mul_num(obj[x], Num(s)), obj)

\* s * x
NumMul ==
    /\ call = NoCall
    /\ \E x \in Refs, s \in Nums :
        /\ arithmetic(obj[x])
        /\ Do("mul", "mul", <<ArgNum(s), ArgRef(obj, x)>>,
              operator_mul_num(Num(s), obj[x]), obj)

\* x / s; dividing by zero is outside the operator's domain
DivNum ==
    /\ call = NoCall
    /\ \E x \in Refs, s \in Nums \ {0} :
        /\ arithmetic(obj[x])
        /\ Do("div", "div", <<ArgRef(obj, x), ArgNum(s)>>,
              operator_div_num(obj[x], Num(s)), obj)

\* x * y for mat<R, LC> and mat<LC, RC>
MulMat ==
    /\ call = NoCall
    /\ \E x \in Refs, y \in Refs :
        /\ is_mat(obj[x]) /\ is_mat(obj[y])
        /\ obj[x].shape[1] = obj[y].shape[0]
        /\ Do("mul", "mat", <<ArgRef(obj, x), ArgRef(obj, y)>>,
              operator_mul_mat(obj[x], obj[y]), obj)

\* x * y for mat<R, C> and vec<C>
MulVec ==
    /\ call = NoCall
    /\ \E x \in Refs, y \in Refs :
        /\ is_mat(obj[x]) /\ is_vec(obj[y])
        /\ obj[x].shape[1] = obj[y].shape[0]
        /\ Do("mul", "vec", <<ArgRef(obj, x), ArgRef(obj, y)>>,
              operator_mul_vec(obj[x], obj[y]), obj)

\* a compound assignment returns a reference to its left operand
Assign(name, f, l, rarg, h) == Do(name, f, <<ArgRef(obj, l), rarg>>, h[l], h)

\* l += r and l -= r, in the revision built on cwise and in the one that loops
AddAssign ==
    /\ call = NoCall
    /\ \E l \in Refs, r \in Refs :
        /\ arithmetic(obj[l]) /\ same_type(obj[l], obj[r])
        /\ \/ Assign("add_assign", "add", l, ArgRef(obj, r), cwise_assign("add", obj, l, r))
           \/ Assign("add_assign", "add", l, ArgRef(obj, r),
                     loop_assign("add", obj, l, r, tuple_size(obj[l])))

SubAssign ==
    /\ call = NoCall
    /\ \E l \in Refs, r \in Refs :
        /\ arithmetic(obj[l]) /\ same_type(obj[l], obj[r])
        /\ \/ Assign("sub_assign", "sub", l, ArgRef(obj, r), cwise_assign("sub", obj, l, r))
           \/ Assign("sub_assign", "sub", l, ArgRef(obj, r),
                     loop_assign("sub", obj, l, r, tuple_size(obj[l])))

\* l *= s
MulAssignNum ==
    /\ call = NoCall
    /\ \E l \in Refs, s \in Nums :
        /\ arithmetic(obj[l])
        /\ \/ Assign("mul_assign", "mul", l, ArgNum(s), cwise_assign_num("mul", obj, l, s))
           \/ Assign("mul_assign", "mul", l, ArgNum(s),
                     loop_assign_num("mul", obj, l, s, tuple_size(obj[l])))

\* l /= s
DivAssignNum ==
    /\ call = NoCall
    /\ \E l \in Refs, s \in Nums \ {0} :
        /\ arithmetic(obj[l])
        /\ \/ Assign("div_assign", "div", l, ArgNum(s), cwise_assign_num("div", obj, l, s))
           \/ Assign("div_assign", "div", l, ArgNum(s),
                     loop_assign_num("div", obj, l, s, tuple_size(obj[l])))

\* l *= r for two mat<R, C>, which only compiles when R = C
MulAssignMat ==
    /\ call = NoCall
    /\ \E l \in Refs, r \in Refs :
        /\ is_mat(obj[l]) /\ same_type(obj[l], obj[r])
        /\ obj[l].shape[0] = obj[l].shape[1]
        /\ Assign("mul_assign", "mat", l, ArgRef(obj, r), mul_assign_mat(obj, l, r))

NextOperators ==
    \/ Cwise1
    \/ Cwise2
    \/ Cwise3
    \/ Compare
    \/ Negate
    \/ Add
    \/ Sub
    \/ MulNum
    \/ NumMul
    \/ DivNum
    \/ MulMat
    \/ AddAssign
    \/ SubAssign
    \/ MulAssignNum
    \/ DivAssignNum
    \/ MulAssignMat

SpecOperators == InitOperators /\ [][NextOperators]_vars

(* The same machine on the operands of a product: a is a mat<R, L>, b is   *)
(* a mat<L, C> or a vec<L>.                                                *)

InitProduct ==
    /\ \E R \in Sides, L \in Sides :
        \E oa \in MatObjs(R, L), ob \in VecObjs(L) \cup UNION {MatObjs(L, C) : C \in Sides} :
            obj = [a |-> oa, b |-> ob]
    /\ pre = obj
    /\ call = NoCall
    /\ ret = << >>
    /\ IdleBasis
    /\ IdleContainer

NextProduct ==
    \/ MulMat
    \/ MulVec

SpecProduct == InitProduct /\ [][NextProduct]_vars

----------------------------------------------------------------------------
(* Claims about cwise and the operators *)

\* what argument x of a call contributes to element i of the result
Elem(x, i) == IF is_tuple(x.val) THEN x.val.data[i] ELSE x.val.data
\* the first tuple among the arguments of a call
FirstTuple(args) == args[First({m \in 1..Len(args) : is_tuple(args[m].val)})].val

\* C11: cwise of a function of arity 1 to 3 on any mix of equal-sized tuples
\* and scalars with at least one tuple returns a tuple of the type and size
\* of the first tuple argument whose element i is f applied to element i of
\* each tuple argument and to each scalar argument itself, every argument in
\* the position it was passed in.
CwiseRule ==
    call.name = "cwise" =>
        LET args == call.args
            t == FirstTuple(args)
            n == tuple_size(t)
        IN /\ ret.kind = t.kind
           /\ ret.shape = t.shape
           /\ DOMAIN ret.data = 0..(n - 1)
           /\ \A i \in 0..(n - 1) :
                ret.data[i] =
                    CASE Len(args) = 1 -> Apply1(call.f, Elem(args[1], i))
                      [] Len(args) = 2 -> Apply2(call.f, Elem(args[1], i), Elem(args[2], i))
                      [] Len(args) = 3 ->
                            Apply3(call.f, Elem(args[1], i), Elem(args[2], i), Elem(args[3], i))

\* sub called on the scalar 1 and a tuple whose element 0 is 0: 1 - 0, not 0 - 1
CwiseRuleWitness ==
    /\ call.name = "cwise"
    /\ call.f = "sub"
    /\ is_num(call.args[1].val) /\ call.args[1].val.data = 1
    /\ is_tuple(call.args[2].val) /\ call.args[2].val.data[0] = 0
    /\ ret.data[0] = 1

\* x is before y in the lexicographic order of the components
LexLess(x, y) ==
    \E i \in DOMAIN x :
        /\ x[i] < y[i]
        /\ \A j \in DOMAIN x : j < i => x[j] = y[j]

\* C12: on vec, mat and quat of integer components operator== is equality
\* of every component and operator< is the lexicographic order (the first
\* differing component decides); >, <= and >= agree with them, exactly one
\* of a < b, a == b, a > b holds, and a < b with b < c gives a < c.
OrderRule ==
    call.name = "compare" =>
        LET a == call.args[1].val
            b == call.args[2].val
        IN /\ ret.eq = (\A i \in DOMAIN a.data : a.data[i] = b.data[i])
           /\ ret.lt = LexLess(a.data, b.data)
           /\ ret.gt = LexLess(b.data, a.data)
           /\ ret.ne = ~ret.eq
           /\ ret.le = (ret.lt \/ ret.eq)
           /\ ret.ge = (ret.gt \/ ret.eq)
           /\ Cardinality({r \in {"lt", "eq", "gt"} : ret[r]}) = 1
           /\ \A d \in Cells(tuple_size(a)) :
                LET c == Obj(a.kind, a.shape, d)
                IN ret.lt /\ operator_lt(b, c) => operator_lt(a, c)

\* a < b decided by an early component although a later one is the other way
OrderRuleWitness ==
    /\ call.name = "compare"
    /\ ret.lt
    /\ \E k \in DOMAIN call.args[1].val.data :
        call.args[1].val.data[k] > call.args[2].val.data[k]
    /\ \E d \in Cells(tuple_size(call.args[1].val)) :
        operator_lt(call.args[2].val, Obj(call.args[1].val.kind, call.args[1].val.shape, d))

\* the square identity of side n as a mat object
IdentityObj(n) == Obj("mat", V2(n, n), c_identity(n, n))

\* C13: for A of shape RxL, B of shape LxC and v of size C, (A*B)(j,k) is
\* the sum over i of A(j,i)*B(i,k) and (A*v)(r) is the sum over c of
\* A(r,c)*v(c); hence (A*B)*v == A*(B*v), and the identity matrix changes
\* neither the matrix nor the vector it is multiplied with.
ProductRule ==
    call.name = "mul" /\ call.f \in {"mat", "vec"} =>
        LET A == call.args[1].val
            b == call.args[2].val
            R == A.shape[0]
            L == A.shape[1]
            C == b.shape[1]
        IN IF call.f = "mat"
           THEN /\ ret.kind = "mat"
                /\ ret.shape = V2(R, C)
                /\ DOMAIN ret.data = 0..(R * C - 1)
                /\ \A j \in 0..(R - 1), k \in 0..(C - 1) :
                     mat_at(ret, j, k)
                         = SumTo([i \in 0..(L - 1) |-> mat_at(A, j, i) * mat_at(b, i, k)], L)
                /\ \A v \in VecObjs(C) :
                     operator_mul_vec(ret, v) = operator_mul_vec(A, operator_mul_vec(b, v))
                /\ b = IdentityObj(L) => ret = A
                /\ A = IdentityObj(L) => ret = b
           ELSE /\ ret.kind = "vec"
                /\ ret.shape = V2(R, 1)
                /\ DOMAIN ret.data = 0..(R - 1)
                /\ \A r \in 0..(R - 1) :
                     ret.data[r] = SumTo([c \in 0..(L - 1) |-> mat_at(A, r, c) * b.data[c]], L)
                /\ A = IdentityObj(L) => ret = b

\* a product of a matrix that is not square with one that is not symmetric,
\* applied to a vector it does not send to zero
ProductRuleWitness ==
    /\ call.name = "mul"
    /\ call.f = "mat"
    /\ call.args[1].val.shape[0] # call.args[1].val.shape[1]
    /\ call.args[2].val.shape = V2(MaxSide, MaxSide)
    /\ mat_at(call.args[2].val, 0, 1) # mat_at(call.args[2].val, 1, 0)
    /\ \E v \in VecObjs(MaxSide) : \E r \in 0..(ret.shape[0] - 1) :
         operator_mul_vec(ret, v).data[r] # 0

AssignNames == {"add_assign", "sub_assign", "mul_assign", "div_assign"}

\* the value argument x of the call had when the call was made
Old(x) == IF x.ref = "" THEN x.val ELSE pre[x.ref]

\* a op b for the compound assignment the call names
OpOf(c, a, b) ==
    CASE c.name = "add_assign" -> operator_add(a, b)
      [] c.name = "sub_assign" -> operator_sub(a, b)
      [] c.name = "mul_assign" /\ c.f = "mat" -> operator_mul_mat(a, b)
      [] c.name = "mul_assign" /\ c.f = "mul" -> operator_mul_num(a, b)
      [] c.name = "div_assign" -> operator_div_num(a, b)

\* C20: cwise, the comparisons and the binary operators leave every object
\* of the caller as it was; a compound assignment a op= b changes only a,
\* sets it to (old a) op (old b) and returns it, also when b is a itself.
NoArgumentMutation ==
    /\ call.name \notin AssignNames => obj = pre
    /\ call.name \in AssignNames =>
        LET l == call.args[1].ref
        IN /\ \A x \in Refs \ {l} : obj[x] = pre[x]
           /\ obj[l] = OpOf(call, pre[l], Old(call.args[2]))
           /\ ret = obj[l]

\* M *= M on a matrix that is not its own square
NoArgumentMutationWitness ==
    /\ call.name = "mul_assign"
    /\ call.f = "mat"
    /\ call.args[1].ref = call.args[2].ref
    /\ obj[call.args[1].ref] # pre[call.args[1].ref]
    /\ \E n \in DOMAIN ret.data : ret.data[n] # 0

----------------------------------------------------------------------------
(* Claim about basis_vector *)

\* the quaternion after the first n calls of a chain of conversions
RECURSIVE QuatAfter(_)
QuatAfter(n) ==
    IF n = 0
    THEN arg.val
    ELSE IF trace[n] = "to_basis"
         THEN to_basis_quat(B, QuatAfter(n - 1))
         ELSE from_basis_quat(B, QuatAfter(n - 1))

\* the quaternion the last call of the chain was made on
QuatBefore == QuatAfter(Len(trace) - 1)

\* the tag of the opposite direction
Opposite(t) == [n \in 0..2 |-> 0 - t[n]]

\* C19: for every quaternion q the vector basis_vector returns for a tag
\* is, component by component, the negation of the one it returns for the
\* opposite tag: xneg against xpos, yneg against ypos, zneg against zpos.
NegatedTag ==
    trace # << >> /\ trace[Len(trace)] = "basis_vector" =>
        \A n \in 0..2 : res.val[n] = 0 - basis_vector(QuatBefore, Opposite(tag))[n]

\* basis_vector(q, zneg) on a quaternion whose z axis image is not the zero vector
NegatedTagWitness ==
    /\ trace = <<"basis_vector">>
    /\ tag = zneg
    /\ arg.val = V4(0, 1, 0, 1)
    /\ res.val = V3(0 - 2, 0, 1)

----------------------------------------------------------------------------
(* Rotations given by angles: axis_angle, euler_angles, scoords.           *)
(*                                                                         *)
(* An angle is a whole number of quarter turns, where std::sin, std::cos,  *)
(* std::atan2 and std::acos have the exact values -1, 0 and 1; T{0.5L} * a *)
(* is taken of an even number of quarter turns only.                       *)

\* angles: -MaxTurns..MaxTurns quarter turns
MaxTurns == 2

Angles == (0 - MaxTurns)..MaxTurns
EvenAngles == {a \in Angles : a % 2 = 0}

cos(a) == CASE a % 4 = 0 -> 1 [] a % 4 = 2 -> 0 - 1 [] OTHER -> 0
sin(a) == CASE a % 4 = 1 -> 1 [] a % 4 = 3 -> 0 - 1 [] OTHER -> 0
\* T{0.5L} * a
half(a) == a \div 2
\* std::atan2 of a point on an axis; atan2(0, 0) is 0
atan2(y, x) ==
    CASE x > 0 -> 0
      [] x = 0 /\ y > 0 -> 1
      [] x < 0 -> 2
      [] x = 0 /\ y < 0 -> 0 - 1
      [] OTHER -> 0
\* std::acos of 1, 0, -1
acos(z) == CASE z = 1 -> 0 [] z = 0 -> 1 [] z = 0 - 1 -> 2

\* dot: the loop  ms += v1(i) * v2(i)
dot(v1, v2) ==
    LET D == Cardinality(DOMAIN v1) IN SumTo([i \in 0..(D - 1) |-> v1[i] * v2[i]], D)

axis_angle(axis, angle) == [axis |-> axis, angle |-> angle]
euler_angles(alpha, beta, gamma) == [alpha |-> alpha, beta |-> beta, gamma |-> gamma]
scoords_usphere(theta, phi) == [theta |-> theta, phi |-> phi]
scoords(r, usphere) == [r |-> r, usphere |-> usphere]

\* mat_from(axis_angle): Rodrigues' formula
mat_from_axis_angle(aa) ==
    LET cos_theta == cos(aa.angle)
        sin_theta == sin(aa.angle)
        one_minus_cos_theta == 1 - cos_theta
        xx_1_minus_cos_t == aa.axis[0] * aa.axis[0] * one_minus_cos_theta
        xy_1_minus_cos_t == aa.axis[0] * aa.axis[1] * one_minus_cos_theta
        yy_1_minus_cos_t == aa.axis[1] * aa.axis[1] * one_minus_cos_theta
        xz_1_minus_cos_t == aa.axis[0] * aa.axis[2] * one_minus_cos_theta
        yz_1_minus_cos_t == aa.axis[1] * aa.axis[2] * one_minus_cos_theta
        zz_1_minus_cos_t == aa.axis[2] * aa.axis[2] * one_minus_cos_theta
        x_sin_t == aa.axis[0] * sin_theta
        y_sin_t == aa.axis[1] * sin_theta
        z_sin_t == aa.axis[2] * sin_theta
    IN Braces(<< xx_1_minus_cos_t + cos_theta,
                 xy_1_minus_cos_t + z_sin_t,
                 xz_1_minus_cos_t - y_sin_t,
                 0,
                 xy_1_minus_cos_t - z_sin_t,
                 yy_1_minus_cos_t + cos_theta,
                 yz_1_minus_cos_t + x_sin_t,
                 0,
                 xz_1_minus_cos_t + y_sin_t,
                 yz_1_minus_cos_t - x_sin_t,
                 zz_1_minus_cos_t + cos_theta,
                 0,
                 0, 0, 0, 1 >>)

quat_from_axis_angle_full_angle(aa) ==
    V4(aa.axis[0] * sin(aa.angle), aa.axis[1] * sin(aa.angle),
       aa.axis[2] * sin(aa.angle), cos(aa.angle))

\* quat_from(axis_angle): as<quat<T>>(aa.axis * sin(ha), cos(ha))
quat_from_axis_angle(aa) ==
    LET ha == half(aa.angle)
    IN V4(aa.axis[0] * sin(ha), aa.axis[1] * sin(ha), aa.axis[2] * sin(ha), cos(ha))

rotate_cross_commuted(aa, v) ==
    [n \in 0..2 |->
        v[n] * cos(aa.angle) + cross(v, aa.axis)[n] * sin(aa.angle)
            + aa.axis[n] * (dot(aa.axis, v) * (1 - cos(aa.angle)))]

\* rotate(aa, v)
rotate(aa, v) ==
    LET cos_a == cos(aa.angle)
        sin_a == sin(aa.angle)
    IN [n \in 0..2 |->
           v[n] * cos_a + cross(aa.axis, v)[n] * sin_a
               + aa.axis[n] * (dot(aa.axis, v) * (1 - cos_a))]

mat_from_euler_angles_sin_beta(b, ea) ==
    from_basis_mat(b,
        Braces(<< cos(ea.alpha) * cos(ea.gamma) - cos(ea.beta) * sin(ea.alpha) * sin(ea.gamma),
                  cos(ea.gamma) * sin(ea.alpha) + cos(ea.alpha) * sin(ea.gamma) * cos(ea.beta),
                  sin(ea.beta) * sin(ea.gamma),
                  0,
                  0 - cos(ea.alpha) * sin(ea.gamma) - cos(ea.beta) * cos(ea.gamma) * sin(ea.alpha),
                  cos(ea.alpha) * cos(ea.gamma) * cos(ea.beta) - sin(ea.alpha) * sin(ea.gamma),
                  cos(ea.gamma) * sin(ea.beta),
                  0,
                  sin(ea.alpha) * sin(ea.beta),
                  0 - cos(ea.alpha) * sin(ea.beta),
                  sin(ea.beta),
                  0,
                  0, 0, 0, 1 >>))

\* mat_from(euler_angles<T, B>)
mat_from_euler_angles(b, ea) ==
    LET cos_a == cos(ea.alpha)
        sin_a == sin(ea.alpha)
        cos_b == cos(ea.beta)
        sin_b == sin(ea.beta)
        cos_g == cos(ea.gamma)
        sin_g == sin(ea.gamma)
        cos_a_cos_g == cos_a * cos_g
        sin_a_sin_g == sin_a * sin_g
        cos_g_sin_a == cos_g * sin_a
        cos_a_sin_g == cos_a * sin_g
    IN from_basis_mat(b,
           Braces(<< cos_a_cos_g - cos_b * sin_a_sin_g,
                     cos_g_sin_a + cos_a_sin_g * cos_b,
                     sin_b * sin_g,
                     0,
                     0 - cos_a_sin_g - cos_b * cos_g_sin_a,
                     cos_a_cos_g * cos_b - sin_a_sin_g,
                     cos_g * sin_b,
                     0,
                     sin_a * sin_b,
                     0 - cos_a * sin_b,
                     cos_b,
                     0,
                     0, 0, 0, 1 >>))

\* quat_from(euler_angles<T, B>)
quat_from_euler_angles(b, ea) ==
    LET a == half(ea.alpha)
        cos_a == cos(a)
        sin_a == sin(a)
        bb == half(ea.beta)
        cos_b == cos(bb)
        sin_b == sin(bb)
        g == half(ea.gamma)
        cos_g == cos(g)
        sin_g == sin(g)
    IN from_basis_quat(b,
           V4(cos_a * sin_b * cos_g + sin_a * sin_b * sin_g,
              sin_a * sin_b * cos_g - cos_a * sin_b * sin_g,
              sin_a * cos_b * cos_g + cos_a * cos_b * sin_g,
              cos_a * cos_b * cos_g - sin_a * cos_b * sin_g))

vec_from_scoords_usphere_to_basis(b, scu) ==
    to_basis_vec(b, V3(cos(scu.theta) * sin(scu.phi), sin(scu.theta) * sin(scu.phi),
                       cos(scu.phi)))

\* vec_from(scoords_usphere<T, B>)
vec_from_scoords_usphere(b, scu) ==
    LET cos_theta == cos(scu.theta)
        sin_theta == sin(scu.theta)
        cos_phi == cos(scu.phi)
        sin_phi == sin(scu.phi)
    IN from_basis_vec(b, V3(cos_theta * sin_phi, sin_theta * sin_phi, cos_phi))

\* vec_from(scoords<T, B>): sc.r * vec_from(sc.usphere)
vec_from_scoords(b, sc) ==
    operator_mul_num(Num(sc.r),
                     Obj("vec", V2(3, 1), vec_from_scoords_usphere(b, sc.usphere))).data

\* detail::scoords_usphere_from
detail_scoords_usphere_from(p) ==
    LET theta == atan2(p[1], p[0])
        phi == acos(p[2])
    IN scoords_usphere(theta, phi)

scoords_usphere_from_from_basis(b, xyz) == detail_scoords_usphere_from(from_basis_vec(b, xyz))

\* scoords_usphere_from<B>(xyz)
scoords_usphere_from(b, xyz) ==
    LET p == to_basis_vec(b, xyz)
    IN detail_scoords_usphere_from(p)

----------------------------------------------------------------------------
(* The angle machine: a caller instantiates the conversions with a valid   *)
(* basis, starts from an axis-angle and a vector, from Euler angles, from  *)
(* spherical coordinates or from a unit vector, and chains calls on it.    *)

\* the vectors a rotation is applied to
TestVecs ==
    {UnitCells(3, k, s) : k \in 0..2, s \in Coord \ {0}} \cup {RampCells(3, a) : a \in Coord}
UnitVecs == {v \in VecInputs : mag2(v) = 1}

RotationInputs ==
    {Value("rotation", [aa |-> axis_angle(axis, angle), v |-> v]) :
        axis \in VecInputs, angle \in Angles, v \in TestVecs}
EulerInputs ==
    {Value("euler_angles", euler_angles(a, b, g)) : a \in Angles, b \in Angles, g \in Angles}
UsphereInputs ==
    {Value("scoords_usphere", scoords_usphere(t, p)) : t \in Angles, p \in Angles}
ScoordsInputs ==
    {Value("scoords", scoords(r, u.val)) : r \in Coord, u \in UsphereInputs}
UnitVecInputs == {Value("vec", v) : v \in UnitVecs}

InitAngles ==
    /\ \/ B = initial_basis /\ arg \in RotationInputs
       \/ B \in ValidBases
            /\ arg \in EulerInputs \cup UsphereInputs \cup ScoordsInputs \cup UnitVecInputs
    /\ res = arg
    /\ trace = << >>
    /\ tag = xpos
    /\ IdleContainer
    /\ IdleOperators

MatFromAxisAngle ==
    /\ res.kind = "rotation"
    /\ Call("mat_from", "mat", mat_from_axis_angle(res.val.aa))

QuatFromAxisAngle ==
    /\ res.kind = "rotation"
    /\ res.val.aa.angle \in EvenAngles
    /\ Call("quat_from", "quat", quat_from_axis_angle(res.val.aa))

Rotate ==
    /\ res.kind = "rotation"
    /\ Call("rotate", "vec", rotate(res.val.aa, res.val.v))

MatFromEulerAngles ==
    /\ res.kind = "euler_angles"
    /\ Call("mat_from", "mat", mat_from_euler_angles(B, res.val))

QuatFromEulerAngles ==
    /\ res.kind = "euler_angles"
    /\ {res.val.alpha, res.val.beta, res.val.gamma} \subseteq EvenAngles
    /\ Call("quat_from", "quat", quat_from_euler_angles(B, res.val))

VecFromScoordsUsphere ==
    /\ res.kind = "scoords_usphere"
    /\ Call("vec_from", "vec", vec_from_scoords_usphere(B, res.val))

VecFromScoords ==
    /\ res.kind = "scoords"
    /\ Call("vec_from", "vec", vec_from_scoords(B, res.val))

\* the input vector must be normalized
ScoordsUsphereFrom ==
    /\ res.kind = "vec"
    /\ mag2(res.val) = 1
    /\ Call("scoords_usphere_from", "scoords_usphere", scoords_usphere_from(B, res.val))

NextAngles ==
    \/ MatFromAxisAngle
    \/ QuatFromAxisAngle
    \/ Rotate
    \/ MatFromEulerAngles
    \/ QuatFromEulerAngles
    \/ VecFromScoordsUsphere
    \/ VecFromScoords
    \/ ScoordsUsphereFrom

SpecAngles == InitAngles /\ [][NextAngles]_vars

----------------------------------------------------------------------------
(* Claims about the rotations given by angles *)

\* the upper-left 3x3 block of a 4x4 matrix applied to a 3-vector
Block3Times(m, v) ==
    [r \in 0..2 |-> At(m, r, 0) * v[0] + At(m, r, 1) * v[1] + At(m, r, 2) * v[2]]

\* C14: a rotation of angle zero converts to the identity: mat_from of an
\* axis-angle of angle 0 is the 4x4 identity whatever the axis, and for
\* every valid basis mat_from of the Euler angles {0,0,0} is the 4x4
\* identity and quat_from of them is {0,0,0,1}.
ZeroRotation ==
    /\ arg.kind = "rotation" /\ arg.val.aa.angle = 0 /\ trace = <<"mat_from">> =>
        res.val = Identity4
    /\ arg = Value("euler_angles", euler_angles(0, 0, 0)) =>
        /\ trace = <<"mat_from">> => res.val = Identity4
        /\ trace = <<"quat_from">> => res.val = V4(0, 0, 0, 1)

\* the Euler angles {0,0,0} of a left-handed basis, converted to a matrix
ZeroRotationWitness ==
    /\ arg = Value("euler_angles", euler_angles(0, 0, 0))
    /\ B = basis(zneg, xpos, ypos)
    /\ trace = <<"mat_from">>
    /\ res.val = Identity4

\* C15: rotate(aa, v) is the upper-left 3x3 block of mat_from(aa) times v,
\* for every axis, angle and vector; (1,0,0) turned about (0,0,1) by a
\* quarter turn is (0,1,0).
RotateRule ==
    arg.kind = "rotation" /\ trace = <<"rotate">> =>
        /\ res.val = Block3Times(mat_from_axis_angle(arg.val.aa), arg.val.v)
        /\ arg.val.aa = axis_angle(V3(0, 0, 1), 1) /\ arg.val.v = V3(1, 0, 0) =>
             res.val = V3(0, 1, 0)

\* (1,0,0) turned about (0,0,1) by a quarter turn
RotateRuleWitness ==
    /\ arg = Value("rotation", [aa |-> axis_angle(V3(0, 0, 1), 1), v |-> V3(1, 0, 0)])
    /\ trace = <<"rotate">>
    /\ res.val = V3(0, 1, 0)

Direction(scu) ==
    V3(cos(scu.theta) * sin(scu.phi), sin(scu.theta) * sin(scu.phi), cos(scu.phi))

\* C17: vec_from of the unit-sphere coordinates {theta, phi} of basis B is
\* from_basis<B> of (cos theta sin phi, sin theta sin phi, cos phi), and
\* vec_from of {r, {theta, phi}} is r times that vector; theta = 0 and
\* phi = a quarter turn in the initial basis give (1,0,0).
VecFromRule ==
    /\ arg.kind = "scoords_usphere" /\ trace = <<"vec_from">> =>
        /\ res.val = from_basis_vec(B, Direction(arg.val))
        /\ B = initial_basis /\ arg.val = scoords_usphere(0, 1) => res.val = V3(1, 0, 0)
    /\ arg.kind = "scoords" /\ trace = <<"vec_from">> =>
        res.val = Scaled(arg.val.r, from_basis_vec(B, Direction(arg.val.usphere)))

\* a point off the axes of a basis that from_basis and to_basis treat differently
VecFromRuleWitness ==
    /\ arg = Value("scoords", scoords(0 - 1, scoords_usphere(1, 1)))
    /\ B = basis(ypos, zpos, xpos)
    /\ trace = <<"vec_from">>
    /\ res.val = V3(0, 0, 0 - 1)

\* C18: for every valid basis B and unit vector v that is not on B's
\* zenith axis K, vec_from(scoords_usphere_from<B>(v)) is v.
ScoordsRoundTrip ==
    /\ arg.kind = "vec"
    /\ mag2(arg.val) = 1
    /\ dot(arg.val, B.k) = 0
    /\ trace = <<"scoords_usphere_from", "vec_from">>
    => res.val = arg.val

\* the round trip of a vector on the negative azimuth reference of its basis
ScoordsRoundTripWitness ==
    /\ arg = Value("vec", V3(0, 0 - 1, 0))
    /\ B = basis(ypos, zpos, xpos)
    /\ trace = <<"scoords_usphere_from", "vec_from">>
    /\ res.val = arg.val

----------------------------------------------------------------------------
(* Elementary rotations about an axis tag, Tait-Bryan angles and the        *)
(* quaternion of spherical coordinates.                                    *)

tait_bryan_angles(alpha, beta, gamma) == [alpha |-> alpha, beta |-> beta, gamma |-> gamma]

mat_from_tag_zpos_clockwise(a, t) ==
    LET cos_a == cos(a)
        sin_a == sin(a)
    IN CASE t = xpos -> Braces(<< 1, 0, 0, 0,
                                  0, cos_a, sin_a, 0,
                                  0, 0 - sin_a, cos_a, 0,
                                  0, 0, 0, 1 >>)
         [] t = xneg -> Braces(<< 1, 0, 0, 0,
                                  0, cos_a, 0 - sin_a, 0,
                                  0, sin_a, cos_a, 0,
                                  0, 0, 0, 1 >>)
         [] t = ypos -> Braces(<< cos_a, 0, 0 - sin_a, 0,
                                  0, 1, 0, 0,
                                  sin_a, 0, cos_a, 0,
                                  0, 0, 0, 1 >>)
         [] t = yneg -> Braces(<< cos_a, 0, sin_a, 0,
                                  0, 1, 0, 0,
                                  0 - sin_a, 0, cos_a, 0,
                                  0, 0, 0, 1 >>)
         [] OTHER -> Braces(<< cos_a, 0 - sin_a, 0, 0,
                               sin_a, cos_a, 0, 0,
                               0, 0, 1, 0,
                               0, 0, 0, 1 >>)

\* mat_from(a, xpos), ..., mat_from(a, zneg): one overload per axis tag
mat_from_tag(a, t) ==
    LET cos_a == cos(a)
        sin_a == sin(a)
    IN CASE t = xpos -> Braces(<< 1, 0, 0, 0,
                                  0, cos_a, sin_a, 0,
                                  0, 0 - sin_a, cos_a, 0,
                                  0, 0, 0, 1 >>)
         [] t = xneg -> Braces(<< 1, 0, 0, 0,
                                  0, cos_a, 0 - sin_a, 0,
                                  0, sin_a, cos_a, 0,
                                  0, 0, 0, 1 >>)
         [] t = ypos -> Braces(<< cos_a, 0, 0 - sin_a, 0,
                                  0, 1, 0, 0,
                                  sin_a, 0, cos_a, 0,
                                  0, 0, 0, 1 >>)
         [] t = yneg -> Braces(<< cos_a, 0, sin_a, 0,
                                  0, 1, 0, 0,
                                  0 - sin_a, 0, cos_a, 0,
                                  0, 0, 0, 1 >>)
         [] t = zpos -> Braces(<< cos_a, sin_a, 0, 0,
                                  0 - sin_a, cos_a, 0, 0,
                                  0, 0, 1, 0,
                                  0, 0, 0, 1 >>)
         [] t = zneg -> Braces(<< cos_a, 0 - sin_a, 0, 0,
                                  sin_a, cos_a, 0, 0,
                                  0, 0, 1, 0,
                                  0, 0, 0, 1 >>)

quat_from_tag_unsigned(a, t) ==
    LET h == half(a)
    IN CASE t \in {xpos, xneg} -> V4(sin(h), 0, 0, cos(h))
         [] t \in {ypos, yneg} -> V4(0, sin(h), 0, cos(h))
         [] OTHER -> V4(0, 0, sin(h), cos(h))

\* quat_from(a, xpos), ..., quat_from(a, zneg): a *= T{0.5L} first
quat_from_tag(a, t) ==
    LET h == half(a)
    IN CASE t = xpos -> V4(sin(h), 0, 0, cos(h))
         [] t = xneg -> V4(0 - sin(h), 0, 0, cos(h))
         [] t = ypos -> V4(0, sin(h), 0, cos(h))
         [] t = yneg -> V4(0, 0 - sin(h), 0, cos(h))
         [] t = zpos -> V4(0, 0, sin(h), cos(h))
         [] t = zneg -> V4(0, 0, 0 - sin(h), cos(h))

mat_from_tait_bryan_angles_pitch_sign(b, ea) ==
    from_basis_mat(b,
        Braces(<< cos(ea.alpha) * cos(ea.beta),
                  cos(ea.beta) * sin(ea.alpha),
                  sin(ea.beta),
                  0,
                  cos(ea.alpha) * sin(ea.beta) * sin(ea.gamma) - cos(ea.gamma) * sin(ea.alpha),
                  cos(ea.alpha) * cos(ea.gamma) + sin(ea.alpha) * sin(ea.beta) * sin(ea.gamma),
                  cos(ea.beta) * sin(ea.gamma),
                  0,
                  sin(ea.alpha) * sin(ea.gamma) + cos(ea.alpha) * cos(ea.gamma) * sin(ea.beta),
                  cos(ea.gamma) * sin(ea.alpha) * sin(ea.beta) - cos(ea.alpha) * sin(ea.gamma),
                  cos(ea.beta) * cos(ea.gamma),
                  0,
                  0, 0, 0, 1 >>))

\* mat_from(tait_bryan_angles<T, B>)
mat_from_tait_bryan_angles(b, ea) ==
    LET cos_a == cos(ea.alpha)
        sin_a == sin(ea.alpha)
        cos_b == cos(ea.beta)
        sin_b == sin(ea.beta)
        cos_g == cos(ea.gamma)
        sin_g == sin(ea.gamma)
        cos_a_cos_g == cos_a * cos_g
        sin_b_sin_g == sin_b * sin_g
        cos_g_sin_a == cos_g * sin_a
    IN from_basis_mat(b,
           Braces(<< cos_a * cos_b,
                     cos_b * sin_a,
                     0 - sin_b,
                     0,
                     cos_a * sin_b_sin_g - cos_g_sin_a,
                     cos_a_cos_g + sin_a * sin_b_sin_g,
                     cos_b * sin_g,
                     0,
                     sin_a * sin_g + cos_a_cos_g * sin_b,
                     cos_g_sin_a * sin_b - cos_a * sin_g,
                     cos_b * cos_g,
                     0,
                     0, 0, 0, 1 >>))

\* c_half_pi<T>: a quarter turn
c_half_pi == 1

quat_from_scoords_usphere_counter_clockwise(b, scu) ==
    LET t == half(scu.theta)
        p == half(scu.phi + c_half_pi)
    IN from_basis_quat(b,
           V4(0 - sin(t) * sin(p), cos(t) * sin(p), sin(t) * cos(p), cos(t) * cos(p)))

\* quat_from(scoords_usphere<T, B>)
quat_from_scoords_usphere(b, scu) ==
    LET t == half(scu.theta)
        cos_t == cos(t)
        sin_t == sin(t)
        p == half(scu.phi - c_half_pi)
        cos_p == cos(p)
        sin_p == sin(p)
    IN from_basis_quat(b,
           V4(0 - sin_t * sin_p, cos_t * sin_p, sin_t * cos_p, cos_t * cos_p))

----------------------------------------------------------------------------
(* The elementary-rotation machine: a caller starts from an angle and an   *)
(* axis tag, from Tait-Bryan angles or from unit-sphere coordinates of a   *)
(* valid basis and converts them.                                          *)

TagInputs == {Value("angle", [a |-> a, t |-> t]) : a \in Angles, t \in Tags}
TaitBryanInputs ==
    {Value("tait_bryan_angles", tait_bryan_angles(a, b, g)) :
        a \in Angles, b \in Angles, g \in Angles}

InitElementary ==
    /\ \/ B = initial_basis /\ arg \in TagInputs
       \/ B \in ValidBases /\ arg \in TaitBryanInputs \cup UsphereInputs
    /\ res = arg
    /\ trace = << >>
    /\ tag = xpos
    /\ IdleContainer
    /\ IdleOperators

MatFromTag ==
    /\ res.kind = "angle"
    /\ Call("mat_from", "mat", mat_from_tag(res.val.a, res.val.t))

QuatFromTag ==
    /\ res.kind = "angle"
    /\ res.val.a \in EvenAngles
    /\ Call("quat_from", "quat", quat_from_tag(res.val.a, res.val.t))

MatFromTaitBryanAngles ==
    /\ res.kind = "tait_bryan_angles"
    /\ Call("mat_from", "mat", mat_from_tait_bryan_angles(B, res.val))

\* the halves of theta and of phi - c_half_pi are whole quarter turns
QuatFromScoordsUsphere ==
    /\ res.kind = "scoords_usphere"
    /\ res.val.theta % 2 = 0
    /\ (res.val.phi - c_half_pi) % 2 = 0
    /\ Call("quat_from", "quat", quat_from_scoords_usphere(B, res.val))

NextElementary ==
    \/ MatFromTag
    \/ QuatFromTag
    \/ MatFromTaitBryanAngles
    \/ QuatFromScoordsUsphere
    \/ BasisVector

SpecElementary == InitElementary /\ [][NextElementary]_vars

----------------------------------------------------------------------------
(* Claims about the compositions of elementary rotations *)

\* operator*(mat, mat) on the storage of two 4x4 matrices
Times(l, m) == operator_mul_mat(Obj("mat", V2(4, 4), l), Obj("mat", V2(4, 4), m)).data

NonTrivial(a) == a % 4 # 0

\* C21: for every valid basis B, mat_from of the Euler angles
\* {alpha, beta, gamma} of B is from_basis<B> of the product
\* mat_from(alpha, zpos) * mat_from(beta, xpos) * mat_from(gamma, zpos).
EulerComposition ==
    arg.kind = "euler_angles" /\ trace = <<"mat_from">> =>
        res.val = from_basis_mat(B,
                      Times(Times(mat_from_tag(arg.val.alpha, zpos),
                                  mat_from_tag(arg.val.beta, xpos)),
                            mat_from_tag(arg.val.gamma, zpos)))

\* three different quarter-turn angles in a left-handed basis
EulerCompositionWitness ==
    /\ arg = Value("euler_angles", euler_angles(1, 0 - 1, 2))
    /\ B = basis(zneg, xpos, ypos)
    /\ trace = <<"mat_from">>
    /\ res.val # Identity4
    /\ res.val = from_basis_mat(B,
                     Times(Times(mat_from_tag(1, zpos), mat_from_tag(0 - 1, xpos)),
                           mat_from_tag(2, zpos)))

\* the yaw-pitch-roll product of the elementary rotations
YawPitchRoll(ea) ==
    Times(Times(mat_from_tag(ea.alpha, zpos), mat_from_tag(ea.beta, ypos)),
          mat_from_tag(ea.gamma, xpos))

\* C22 as stated: mat_from of the Tait-Bryan angles of B is from_basis<B> of
\* mat_from(alpha, zpos) * mat_from(beta, ypos) * mat_from(gamma, xpos), and
\* it differs from mat_from of the Euler angles of the same values whenever
\* beta or gamma is a non-trivial rotation.
TaitBryanAlwaysDiffers ==
    arg.kind = "tait_bryan_angles" /\ trace = <<"mat_from">> =>
        /\ res.val = from_basis_mat(B, YawPitchRoll(arg.val))
        /\ NonTrivial(arg.val.beta) \/ NonTrivial(arg.val.gamma) =>
             res.val # mat_from_euler_angles(B, arg.val)

\* beta and gamma both a quarter turn clockwise
BothMinusQuarter(ea) == ea.beta % 4 = 3 /\ ea.gamma % 4 = 3

\* C22: mat_from of the Tait-Bryan angles of B is from_basis<B> of
\* mat_from(alpha, zpos) * mat_from(beta, ypos) * mat_from(gamma, xpos); when
\* beta or gamma is a non-trivial rotation it differs from mat_from of the
\* Euler angles of the same values, except when beta and gamma are both a
\* quarter turn clockwise, where the two matrices are equal.
TaitBryanComposition ==
    arg.kind = "tait_bryan_angles" /\ trace = <<"mat_from">> =>
        /\ res.val = from_basis_mat(B, YawPitchRoll(arg.val))
        /\ ((NonTrivial(arg.val.beta) \/ NonTrivial(arg.val.gamma))
                /\ ~ BothMinusQuarter(arg.val)) =>
             res.val # mat_from_euler_angles(B, arg.val)
        /\ BothMinusQuarter(arg.val) => res.val = mat_from_euler_angles(B, arg.val)

\* pitch and roll of a quarter turn clockwise: the Euler matrix of the same
\* angles is the same matrix
TaitBryanCompositionWitness ==
    /\ arg = Value("tait_bryan_angles", tait_bryan_angles(1, 0 - 1, 0 - 1))
    /\ B = basis(zpos, xpos, ypos)
    /\ trace = <<"mat_from">>
    /\ res.val = from_basis_mat(B, YawPitchRoll(arg.val))
    /\ res.val = mat_from_euler_angles(B, arg.val)

\* C23: for each of the six tags A and every angle a, mat_from(a, A) is
\* mat_from of the axis-angle {A's unit vector, a} and quat_from(a, A) is
\* quat_from of that axis-angle; the matrix of a negative tag is the
\* transpose, and the inverse, of the matrix of the positive tag.
TagRule ==
    arg.kind = "angle" =>
        /\ trace = <<"mat_from">> =>
            /\ res.val = mat_from_axis_angle(axis_angle(arg.val.t, arg.val.a))
            /\ mat_from_tag(arg.val.a, Opposite(arg.val.t)) = Transposed(res.val)
            /\ Times(res.val, mat_from_tag(arg.val.a, Opposite(arg.val.t))) = Identity4
        /\ trace = <<"quat_from">> =>
            res.val = quat_from_axis_angle(axis_angle(arg.val.t, arg.val.a))

\* a quarter turn about yneg
TagRuleWitness ==
    /\ arg = Value("angle", [a |-> 1, t |-> yneg])
    /\ trace = <<"mat_from">>
    /\ res.val = Braces(<< 0, 0, 1, 0,
                           0, 1, 0, 0,
                           0 - 1, 0, 0, 0,
                           0, 0, 0, 1 >>)

----------------------------------------------------------------------------
(* Claims about the two families of bool conversions *)

GenericKinds == {"vec", "mat"}
SpecializedKinds == {"vec1", "vec2", "vec3", "vec4", "quat"}

\* C25: the bool conversions of the two container families are opposite:
\* the generic vec<T,D> (D >= 5) and mat<T,R,C> convert to true iff every
\* component is zero, the specializations vec<T,1..4> and quat<T> convert to
\* true iff at least one component is nonzero.
BoolFamilies ==
    /\ kind \in GenericKinds => (to_bool(kind, mem, shape) <=> AllZero)
    /\ kind \in SpecializedKinds => (to_bool(kind, mem, shape) <=> ~ AllZero)

\* a 2x3 matrix with a nonzero entry written through m(r, c) converts to false
BoolFamiliesWitness ==
    /\ kind = "mat"
    /\ shape = V2(2, 3)
    /\ lastOp.op = "rc"
    /\ ~ AllZero
    /\ ~ to_bool(kind, mem, shape)

----------------------------------------------------------------------------
(* The triplet machine: basis<I, J, K> is instantiated with any three of   *)
(* the six tags, degenerate triplets included, and to_basis is called with *)
(* it.  to_basis reads the input at tag_index of I, J and K, which is an   *)
(* index of the input for every tag.                                       *)

Triplets == [i : Tags, j : Tags, k : Tags]

InitTriplets ==
    /\ B \in Triplets
    /\ arg \in {Value("vec", v) : v \in VecInputs} \cup {Value("quat", q) : q \in QuatInputs}
    /\ res = arg
    /\ trace = << >>
    /\ tag = xpos
    /\ IdleContainer
    /\ IdleOperators

NextTriplets ==
    \/ ToBasisVec
    \/ ToBasisQuat

SpecTriplets == InitTriplets /\ [][NextTriplets]_vars

\* two of the three tags lie on the same axis
Degenerate(b) == {TagAxis(b.i), TagAxis(b.j), TagAxis(b.k)} # 0..2

\* C26: basis<I,J,K> takes a degenerate triplet as it takes any other; for
\* every such triplet is_right_handed is false and is_left_handed is true,
\* and to_basis of a quaternion uses angle_switch = -1, as for a left-handed
\* basis.
DegenerateIsLeftHanded ==
    Degenerate(B) =>
        /\ ~ is_right_handed(B)
        /\ is_left_handed(B)
        /\ arg.kind = "quat" /\ trace = <<"to_basis">> =>
             res.val = V4((0 - 1) * tag_switch(B.i) * arg.val[tag_index(B.i)],
                          (0 - 1) * tag_switch(B.j) * arg.val[tag_index(B.j)],
                          (0 - 1) * tag_switch(B.k) * arg.val[tag_index(B.k)],
                          arg.val[3])

\* I = J = xpos: the x component is read twice and negated
DegenerateIsLeftHandedWitness ==
    /\ B = basis(xpos, xpos, zpos)
    /\ arg = Value("quat", V4(1, 0, 0, 1))
    /\ trace = <<"to_basis">>
    /\ res.val = V4(0 - 1, 0 - 1, 0, 1)

----------------------------------------------------------------------------
(* Numeric helpers: mod, floor and ceil to a multiple of a significance,   *)
(* and the viewport matrix.                                                *)
(*                                                                         *)
(* A value of the floating type T is counted in halves, which holds        *)
(* T{0.5L}, every product of T{0.5L} and a whole number, and every whole   *)
(* number exactly.  Pixel coordinates and sizes stay far below 2^32, so no  *)
(* std::uint32_t sum wraps.                                                *)

\* mod of an integer type: lhs % rhs, which truncates toward zero
mod(lhs, rhs) == lhs - div(lhs, rhs) * rhs

floor_truncating(value, significance) == value - mod(value, significance)

\* floor(value, significance) of an integer type
floor(value, significance) ==
    LET v == value + (IF value < 0 THEN 1 - significance ELSE 0)
    IN v - mod(v, significance)

\* ceil(value, significance) of an integer type
ceil(value, significance) ==
    LET v == value + (IF value >= 0 THEN significance - 1 ELSE 0)
    IN v - mod(v, significance)

\* a whole number as a T
as_T(n) == 2 * n
\* T{0.5L}
half_T == as_T(1) \div 2
\* the product of two T
mul_T(a, b) == (a * b) \div 2
\* a non-negative T converted to std::uint32_t: the fraction is dropped
as_uint32(t) == t \div 2
\* the sum of two std::uint32_t
add_uint32(a, b) == a + b

\* operator*=(LT& lhs, RT rhs) on a vec<std::uint32_t, D> and a T: each
\* lhs.data[i] *= rhs is computed in T and stored as std::uint32_t
mul_assign_uint32_T(lhs, rhs) ==
    [i \in DOMAIN lhs |-> as_uint32(mul_T(as_T(lhs[i]), rhs))]

\* operator*(const LT& lhs, RT rhs): LT result{lhs}; result *= rhs
operator_mul_uint32_T(lhs, rhs) ==
    LET result == lhs
    IN mul_assign_uint32_T(result, rhs)

\* viewport(lower_left, size, near, far); .x, .w are cell 0 and .y, .h cell 1
viewport(lower_left, size, near, far) ==
    LET half_size == operator_mul_uint32_T(size, half_T)
    IN Braces(<< as_T(ReadName("vec2", half_size, "w")), 0, 0, 0,
                 0, as_T(ReadName("vec2", half_size, "h")), 0, 0,
                 0, 0, mul_T(far - near, half_T), 0,
                 as_T(add_uint32(ReadName("vec2", lower_left, "x"),
                                 ReadName("vec2", half_size, "w"))),
                 as_T(add_uint32(ReadName("vec2", lower_left, "y"),
                                 ReadName("vec2", half_size, "h"))),
                 mul_T(far + near, half_T),
                 as_T(1) >>)

----------------------------------------------------------------------------
(* The helper machine: a caller holds either a value and a significance or *)
(* the arguments of viewport, and makes one call.                          *)

\* values: -MaxValue..MaxValue
MaxValue == 6
\* significances: 1..MaxSignificance
MaxSignificance == 3
\* pixel coordinates and sizes: 0..MaxPixels
MaxPixels == 3

RoundingInputs ==
    {[value |-> v, significance |-> s] :
        v \in (0 - MaxValue)..MaxValue, s \in 1..MaxSignificance}
Pixels == [0..1 -> 0..MaxPixels]
ViewportInputs ==
    {[lower_left |-> l, size |-> s, near |-> as_T(n), far |-> as_T(f)] :
        l \in Pixels, s \in Pixels, n \in {0 - 1, 0}, f \in {1}}

InitHelpers ==
    /\ obj \in RoundingInputs \cup ViewportInputs
    /\ pre = obj
    /\ call = NoCall
    /\ ret = << >>
    /\ IdleBasis
    /\ IdleContainer

Floor ==
    /\ call = NoCall
    /\ "significance" \in DOMAIN obj
    /\ Do("floor", "", <<obj.value, obj.significance>>, floor(obj.value, obj.significance), obj)

Ceil ==
    /\ call = NoCall
    /\ "significance" \in DOMAIN obj
    /\ Do("ceil", "", <<obj.value, obj.significance>>, ceil(obj.value, obj.significance), obj)

Viewport ==
    /\ call = NoCall
    /\ "size" \in DOMAIN obj
    /\ Do("viewport", "", <<obj.lower_left, obj.size, obj.near, obj.far>>,
          viewport(obj.lower_left, obj.size, obj.near, obj.far), obj)

NextHelpers ==
    \/ Floor
    \/ Ceil
    \/ Viewport

SpecHelpers == InitHelpers /\ [][NextHelpers]_vars

----------------------------------------------------------------------------
(* Claims about the numeric helpers *)

MultipleOf(m, s) == \E q \in (0 - (MaxValue + MaxSignificance))..(MaxValue + MaxSignificance) : m = q * s

\* C27: for integer value and significance > 0, floor(value, significance)
\* is the greatest multiple of significance that is <= value and
\* ceil(value, significance) the least multiple that is >= value, for
\* negative, zero and positive value.
FloorCeilRule ==
    /\ call.name = "floor" =>
        /\ MultipleOf(ret, call.args[2])
        /\ ret <= call.args[1]
        /\ call.args[1] - ret < call.args[2]
    /\ call.name = "ceil" =>
        /\ MultipleOf(ret, call.args[2])
        /\ ret >= call.args[1]
        /\ ret - call.args[1] < call.args[2]

\* floor of a negative value that is not a multiple
FloorCeilRuleWitness ==
    /\ call.name = "floor"
    /\ call.args = <<0 - 4, 3>>
    /\ ret = 0 - 6

\* the image of the point (x, y, 0, 1) of normalized device coordinates, as
\* a pair of T
Image(m, x, y) ==
    LET p == mat_mul_vec(m, V4(x, y, 0, 1))
    IN V2(p[0], p[1])

\* C30: for every lower_left and size of unsigned components, odd ones
\* included, viewport(lower_left, size, near, far) maps (-1,-1) to
\* lower_left and (+1,+1) to lower_left + size: its x and y scale and its
\* offset from lower_left are exactly size / 2.
ViewportCorners ==
    call.name = "viewport" =>
        LET lower_left == call.args[1]
            size == call.args[2]
        IN /\ Image(ret, 0 - 1, 0 - 1) = V2(as_T(lower_left[0]), as_T(lower_left[1]))
           /\ Image(ret, 1, 1)
                = V2(as_T(lower_left[0] + size[0]), as_T(lower_left[1] + size[1]))
           /\ At(ret, 0, 0) = mul_T(as_T(size[0]), half_T)
           /\ At(ret, 1, 1) = mul_T(as_T(size[1]), half_T)
           /\ At(ret, 0, 3) - as_T(lower_left[0]) = mul_T(as_T(size[0]), half_T)
           /\ At(ret, 1, 3) - as_T(lower_left[1]) = mul_T(as_T(size[1]), half_T)

----------------------------------------------------------------------------
(* The cross product under a change of basis: a caller holds a valid basis *)
(* and two vectors and takes the cross product before or after to_basis.   *)

InitCross ==
    /\ B \in ValidBases
    /\ arg = Value("none", << >>)
    /\ res = arg
    /\ trace = << >>
    /\ tag = xpos
    /\ \E va \in VecInputs, vb \in TestVecs : obj = [a |-> va, b |-> vb]
    /\ pre = obj
    /\ call = NoCall
    /\ ret = << >>
    /\ IdleContainer

\* cross(to_basis<B>(a), to_basis<B>(b))
CrossOfToBasis ==
    /\ call = NoCall
    /\ Do("cross", "to_basis", <<obj.a, obj.b>>,
          cross(to_basis_vec(B, obj.a), to_basis_vec(B, obj.b)), obj)

\* to_basis<B>(cross(a, b))
ToBasisOfCross ==
    /\ call = NoCall
    /\ Do("to_basis", "cross", <<obj.a, obj.b>>, to_basis_vec(B, cross(obj.a, obj.b)), obj)

NextCross ==
    \/ CrossOfToBasis
    \/ ToBasisOfCross

SpecCross == InitCross /\ [][NextCross]_vars

\* C28: for every valid basis B and integer 3-vectors a, b,
\* cross(to_basis<B>(a), to_basis<B>(b)) is h * to_basis<B>(cross(a, b)),
\* with h = +1 when B is right-handed and h = -1 when B is left-handed.
CrossCommutes ==
    call.name = "cross" =>
        LET h == IF is_right_handed(B) THEN 1 ELSE 0 - 1
        IN /\ is_left_handed(B) <=> h = 0 - 1
           /\ ret = Scaled(h, to_basis_vec(B, cross(call.args[1], call.args[2])))

\* a left-handed basis and two vectors whose cross product is not zero
CrossCommutesWitness ==
    /\ B = basis(ypos, xpos, zpos)
    /\ call.name = "cross"
    /\ call.args = <<V3(1, 0, 0 - 1), V3(0, 1, 0)>>
    /\ ret = V3(0, 0 - 1, 0 - 1)

----------------------------------------------------------------------------
(* The two revisions of operator< on matrices *)

\* the entries at which two matrices differ
DifferingRC(lhs, rhs) ==
    {p \in (0..(lhs.shape[0] - 1)) \X (0..(lhs.shape[1] - 1)) :
        mat_at(lhs, p[1], p[2]) # mat_at(rhs, p[1], p[2])}

\* operator<(mat, mat) of the per-type revision: the loops over r, then c,
\* return at the first entry where lhs(r, c) != rhs(r, c)
operator_lt_mat(lhs, rhs) ==
    LET D == DifferingRC(lhs, rhs)
    IN IF D = {} THEN FALSE
       ELSE LET p == CHOOSE x \in D :
                        \A y \in D : x[1] < y[1] \/ (x[1] = y[1] /\ x[2] <= y[2])
            IN mat_at(lhs, p[1], p[2]) < mat_at(rhs, p[1], p[2])

\* lhs < rhs by the per-type revision
CompareMat ==
    /\ call = NoCall
    /\ \E x \in Refs, y \in Refs :
        /\ is_mat(obj[x])
        /\ same_type(obj[x], obj[y])
        /\ Do("compare_mat", "", <<ArgRef(obj, x), ArgRef(obj, y)>>,
              [lt |-> operator_lt_mat(obj[x], obj[y])], obj)

NextRevisions ==
    \/ Compare
    \/ CompareMat

SpecRevisions == InitOperators /\ [][NextRevisions]_vars

\* C29: the two revisions of operator< order every pair of equally shaped
\* matrices alike: the generic one, which compares data[] in storage order,
\* and the per-type one, which compares the entries (r, c) row by row, return
\* the same result for all inputs.
RevisionsAgree ==
    call.name = "compare_mat" =>
        ret.lt = operator_lt(call.args[1].val, call.args[2].val)

====
